---- MODULE Spec2Model ----
(***************************************************************************)
(* Model of the generate / verify / refine loop of the test simulation     *)
(* agent: RTLRunner.run_flow (rtl_runner.py) and run_with_refinement,      *)
(* generate_testbench, analyze_with_llm, extract_error_summary and         *)
(* save_to_memory (test_simulation_agent.py).                              *)
(*                                                                         *)
(* Python dicts are records of a fixed shape; a key the code has not set   *)
(* yet holds Unset (strings) or <<>> (an optional value v is <<v>>).       *)
(* Wall-clock fields (started_at, completed_at, timestamp, saved_at) carry *)
(* no control flow and are left out, except saved_at, kept as a flag.      *)
(* Text is a sequence of lines; a line is one of the sample lines below,   *)
(* and substring tests are computed from the markers each line contains.   *)
(* The external tool always answers with an exit status and its output     *)
(* (subprocess.run returns); a tool that cannot be started is not modelled.*)
(***************************************************************************)
EXTENDS Integers, Sequences, FiniteSets, TLC

\* ------------------------------------------------------------------ bounds
MaxIterations == 3
MaxRemovals == 1

\* ----------------------------------------------------------- sample inputs
Modes == {"compile_only", "compile_elaborate", "full_sim"}

Unset == "<unset>"

\* A line of diagnostic text, with what the code's substring and regex tests
\* find in it: markers = the tested substrings it contains ("Error", "error",
\* "Warning", "PINMISSING", "WIDTH", "WIDTHTRUNC", "WIDTHEXPAND",
\* "Cannot find", "module" and "verilator lint", the last two in the
\* lower-cased line), pin = the name matched by  missing pin: '(\w+)'  ("" if
\* none), port = the name matched by  port '(\w+)',  bits = the numbers
\* matched by  (\d+) bits.+?(\d+) bits  (<<>> if none)
Line(text, markers, pin, port, bits) ==
    [text |-> text, markers |-> markers, pin |-> pin, port |-> port, bits |-> bits]

\* diagnostic lines the external tool can print, and the synthetic messages
LinePin ==
    Line("%Error-PINMISSING: tb/generated_tb.sv:5: Cell has missing pin: 'rst'",
         {"Error", "PINMISSING"}, "rst", "", <<>>)
LineSyntax ==
    Line("%Error: tb/generated_tb.sv:3: syntax error, unexpected IDENTIFIER",
         {"Error", "error"}, "", "", <<>>)
LineExit == Line("%Error: Exiting due to 1 error(s)", {"Error", "error"}, "", "", <<>>)
LineAborted == Line("Aborted (core dumped)", {}, "", "", <<>>)
LineDutNotFound == Line("DUT file not found: rtl/my_dut.v", {}, "", "", <<>>)
LineTbNotFound == Line("Testbench file not found: tb/generated_tb.sv", {}, "", "", <<>>)
LineUnknownError == Line("Unknown error", {"error"}, "", "", <<>>)

\* the tested substrings found in a line
Markers(line) == line.markers

\* "m in stderr" for a text given as its lines
Contains(text, m) == \E i \in 1..Len(text) : m \in Markers(text[i])

\* (exit status, stderr) pairs the external tool can produce
ToolOutcomes ==
    { [returncode |-> 0, stderr |-> <<>>],
      [returncode |-> 1, stderr |-> <<LinePin, LineExit>>],
      [returncode |-> 2, stderr |-> <<LineSyntax, LineAborted>>] }

\* raw completions of the language model, as token sequences; the keyword
\* endmodule is the token pair "end","module" (find("module") also finds it)
\* a fence delimiter is one token: "fence_verilog", "fence_systemverilog", "fence"
RawFenced == <<"fence_verilog", "NL", "module", "tb_top", "end", "module", "NL", "fence">>
RawProse == <<"Sorry", "I", "cannot">>
RawPlain == <<"module", "tb_fix", "end", "module">>
\* what the model can answer in an attempt: the answer to a refined prompt
\* is another text than the answer before it
RawSamplesAt(it) == IF it % 2 = 0 THEN {RawFenced, RawProse} ELSE {RawPlain, RawProse}
RawSamples == RawSamplesAt(0) \cup RawSamplesAt(1)

\* hardware descriptions on disk, by the features detect_port_features sees
DutSamples == {"clk_rst", "comb"}

VARIABLES
    pc,              \* position of run_with_refinement
    max_iterations,  \* argument
    mode,            \* argument
    iteration,       \* loop variable of  for iteration in range(max_iterations)
    previous_error,
    final_analysis,
    iteration_log,   \* the dict built by the current iteration
    run_log,
    success,         \* locals bound by  success, failing_step, results = run_flow(mode)
    failing_step,
    results,
    flow_results,    \* the results dict run_flow is filling
    ret,             \* the returned 5-tuple
    dut_file,        \* rtl/my_dut.v
    tb_file,         \* tb/generated_tb.sv
    logs,            \* logs/<step>.log
    memory,          \* agent_memory.json
    removals,        \* number of external removals of the harness file so far
    trace,           \* calls issued so far: generation, checks, tool runs, saves
    other,           \* a second run in the same process (same RTLRunner paths)
    fn_call,         \* a function called on its own: its name and arguments
    fn_result        \* what that call returned, <<>> before it returns

vars == <<pc, max_iterations, mode, iteration, previous_error, final_analysis,
          iteration_log, run_log, success, failing_step, results, flow_results, ret,
          dut_file, tb_file, logs, memory, removals, trace, other, fn_call, fn_result>>

\* --------------------------------------------------------------- helpers
\* a call issued by the run: op is "generate", "check", "tool" or "save"
Event(op, name, arg) == [op |-> op, name |-> name, it |-> iteration, arg |-> arg]

Min(a, b) == IF a < b THEN a ELSE b

Last(s) == s[Len(s)]

\* results is a dict keyed by step name, in insertion order: a sequence of
\* result records with distinct step names
HasStep(res, step) == \E i \in 1..Len(res) : res[i].step = step
Lookup(res, step) == res[CHOOSE i \in 1..Len(res) : res[i].step = step]

\* ------------------------------------------------- utils/code_generator.py
FenceTokens == {"fence_verilog", "fence_systemverilog", "fence"}

\* re.sub(r'```verilog\n?', '', ...) and the two that follow it: every fence
\* delimiter goes, with the newline right after it
RECURSIVE StripFences(_)
StripFences(raw) ==
    IF raw = <<>> THEN <<>>
    ELSE IF Head(raw) \in FenceTokens
         THEN IF Len(raw) >= 2 /\ raw[2] = "NL"
              THEN StripFences(SubSeq(raw, 3, Len(raw)))
              ELSE StripFences(Tail(raw))
         ELSE <<Head(raw)>> \o StripFences(Tail(raw))

\* code.find("module"): first position of the token, 0 when there is none
FindModule(code) ==
    IF \E i \in 1..Len(code) : code[i] = "module"
    THEN CHOOSE i \in 1..Len(code) :
            /\ code[i] = "module"
            /\ \A j \in 1..(i - 1) : code[j] # "module"
    ELSE 0

\* code.rfind("endmodule"): last position where "end","module" starts
IsEndmoduleAt(code, i) == i + 1 <= Len(code) /\ code[i] = "end" /\ code[i + 1] = "module"

RFindEndmodule(code) ==
    IF \E i \in 1..Len(code) : IsEndmoduleAt(code, i)
    THEN CHOOSE i \in 1..Len(code) :
            /\ IsEndmoduleAt(code, i)
            /\ \A j \in (i + 1)..Len(code) : ~IsEndmoduleAt(code, j)
    ELSE 0

\* sanitize_verilog_code: ok = FALSE stands for the RuntimeError, whose
\* message carries raw_code[:200]
sanitize_verilog_code(raw_code) ==
    LET code == StripFences(raw_code)
        start == FindModule(code)
        end == RFindEndmodule(code)
        clean_code == SubSeq(code, start, end + 1)
    IN  IF start = 0 \/ end = 0
        THEN [ok |-> FALSE, code |-> <<>>,
              preview |-> SubSeq(raw_code, 1, Min(200, Len(raw_code)))]
        ELSE [ok |-> TRUE,
              code |-> IF clean_code # <<>> /\ Last(clean_code) = "NL"
                       THEN clean_code ELSE clean_code \o <<"NL">>,
              preview |-> <<>>]

\* ------------------------------------------------------ prompts/ package
TB_SYSTEM_PROMPT == "TB_SYSTEM_PROMPT"
TB_USER_PROMPT_FIRST == "TB_USER_PROMPT_FIRST"
TB_USER_PROMPT_REFINED == "TB_USER_PROMPT_REFINED"

\* features = detect_port_features(extract_dut_ports(dut_path)): the flags of
\* the ports found in the file (no ports at all when the file is absent)
DutFeatures(dut) ==
    [has_clk |-> dut.exists /\ dut.kind = "clk_rst",
     has_rst |-> dut.exists /\ dut.kind = "clk_rst",
     has_multibit |-> FALSE]

get_examples_by_ports(has_clk, has_rst, multibit) ==
    IF has_clk /\ has_rst THEN "EXAMPLE_WITH_RESET"
    ELSE IF has_clk THEN "EXAMPLE_SIMPLE_SEQUENTIAL"
    ELSE IF multibit THEN "EXAMPLE_MULTIBIT_COMBINATIONAL"
    ELSE "EXAMPLE_COMBINATIONAL_2INPUT"

\* the prompt is the list of its parts: base text, then the examples
build_system_prompt_with_examples(examples) ==
    IF examples # "" THEN <<TB_SYSTEM_PROMPT, "LEARN FROM THESE EXAMPLES", examples>>
    ELSE <<TB_SYSTEM_PROMPT>>

\* ------------------------------------------------ test_simulation_agent.py
\* the lines extract_error_summary keeps
IsErrorLine(line) ==
    /\ Markers(line) \cap {"Error", "Warning", "PINMISSING", "WIDTH"} # {}
    /\ "verilator lint" \notin Markers(line)

RECURSIVE ErrorLines(_)
ErrorLines(stderr) ==
    IF stderr = <<>> THEN <<>>
    ELSE (IF IsErrorLine(Head(stderr)) THEN <<Head(stderr)>> ELSE <<>>)
         \o ErrorLines(Tail(stderr))

\* extract_error_summary; every sample text is shorter than 500 characters,
\* so stderr[:500] is the whole text
extract_error_summary(res, step) ==
    IF ~HasStep(res, step) THEN <<LineUnknownError>>
    ELSE LET stderr == Lookup(res, step).stderr
             errors == ErrorLines(stderr)
         IN  IF errors # <<>> THEN SubSeq(errors, 1, Min(10, Len(errors)))
             ELSE stderr

RECURSIVE FailedSteps(_)
FailedSteps(res) ==
    IF res = <<>> THEN <<>>
    ELSE (IF Head(res).returncode # 0 THEN <<Head(res).step>> ELSE <<>>)
         \o FailedSteps(Tail(res))

ErrorCategory(res, step) ==
    LET stderr == Lookup(res, step).stderr
    IN  IF Contains(stderr, "PINMISSING") THEN "- Missing port connections"
        ELSE IF Contains(stderr, "WIDTH") THEN "- Bit width mismatch"
        ELSE IF Contains(stderr, "Cannot find") THEN "- Module or signal not found"
        ELSE "- step failed"

\* analyze_with_llm
analyze_with_llm(res) ==
    LET failed_steps == FailedSteps(res)
        error_lines == [i \in 1..Len(failed_steps) |-> ErrorCategory(res, failed_steps[i])]
    IN  IF \A i \in 1..Len(res) : res[i].returncode = 0
        THEN [success |-> TRUE, failed_steps |-> <<>>, error_categories |-> <<>>,
              analysis_text |-> <<"All verification steps passed successfully.">>]
        ELSE [success |-> FALSE, failed_steps |-> failed_steps,
              error_categories |-> error_lines,
              analysis_text |-> <<"Failed at", failed_steps, error_lines>>]

\* lines 284-290: what data is bound to after the file was looked at; a file
\* that json.loads rejects gives [], a file that holds valid JSON gives the
\* value it holds, list or not
LoadedData(mem) ==
    CASE mem.kind = "absent"  -> [is_list |-> TRUE, data |-> <<>>]
      [] mem.kind = "corrupt" -> [is_list |-> TRUE, data |-> <<>>]
      [] mem.kind = "list"    -> [is_list |-> TRUE, data |-> mem.data]
      [] mem.kind = "nonlist" -> [is_list |-> FALSE, data |-> mem.data]

\* line 293: data.append on a value that is not a list raises AttributeError
SaveRaises(mem) == ~LoadedData(mem).is_list

\* line 292: memory_data["saved_at"] = ...
Stamped(memory_data) == [memory_data EXCEPT !.saved_at = TRUE]

\* mutant: the file is rewritten with the new record alone
save_to_memory_Overwrite(memory_data, mem) ==
    IF SaveRaises(mem) THEN mem
    ELSE [kind |-> "list", data |-> <<Stamped(memory_data)>>]

\* save_to_memory: the log after the call; a call that raises has not
\* reached write_text
save_to_memory(memory_data, mem) ==
    IF SaveRaises(mem) THEN mem
    ELSE [kind |-> "list", data |-> Append(LoadedData(mem).data, Stamped(memory_data))]

\* ------------------------------------------------------------ rtl_runner.py
ToolSteps == {"compile_dut", "elaborate_dut", "compile_tb"}

Result(step, cmd, returncode, stdout, stderr, log_path) ==
    [step |-> step, cmd |-> cmd, returncode |-> returncode,
     stdout |-> stdout, stderr |-> stderr, log_path |-> log_path]

\* mutant: a missing file is reported with exit status 0
MissingFile_Pass(step, message) == Result(step, "", 0, "", <<message>>, "")

\* the dict a check returns when a file it needs is absent
MissingFile(step, message) == Result(step, "", 1, "", <<message>>, "")

\* the dict _run_cmd returns for an outcome of the external tool
RunCmdResult(cmd, log_name, outcome) ==
    Result(log_name, cmd, outcome.returncode, "", outcome.stderr, log_name)

\* mutant: the log is written only when the tool exits with status 0
_run_cmd_NoLogOnFailure(cmd, log_name, r) ==
    /\ logs' = IF r.returncode = 0
               THEN [logs EXCEPT ![log_name] = <<[cmd |-> r.cmd, stdout |-> r.stdout, stderr |-> r.stderr]>>]
               ELSE logs
    /\ trace' = trace \o <<Event("check", log_name, <<>>), Event("tool", log_name, <<>>)>>

\* _run_cmd: the tool runs, its output goes to logs/<log_name>.log
_run_cmd(cmd, log_name, r) ==
    /\ logs' = [logs EXCEPT ![log_name] = <<[cmd |-> r.cmd, stdout |-> r.stdout, stderr |-> r.stderr]>>]
    /\ trace' = trace \o <<Event("check", log_name, <<>>), Event("tool", log_name, <<>>)>>

\* a check that answers without the tool
NoCmd(step) ==
    /\ logs' = logs
    /\ trace' = Append(trace, Event("check", step, <<>>))

\* return of run_flow and line 375: success, failing_step, results = ...
\* mutant: the name of the failing check is not reported
FlowReturn_StepOk(s, step, res) ==
    /\ success' = s
    /\ failing_step' = "ok"
    /\ results' = res
    /\ pc' = "record"

FlowReturn(s, step, res) ==
    /\ success' = s
    /\ failing_step' = step
    /\ results' = res
    /\ pc' = "record"

FlowContinue(next) ==
    /\ pc' = next
    /\ UNCHANGED <<success, failing_step, results>>

\* mutant: a failing check does not halt the flow
FlowStep_NoHalt(step, r, onPass) ==
    /\ flow_results' = Append(flow_results, r)
    /\ onPass

\* results[step] = r; if r["returncode"] != 0: return False, step, results
FlowStep(step, r, onPass) ==
    /\ flow_results' = Append(flow_results, r)
    /\ IF r.returncode # 0
       THEN FlowReturn(FALSE, step, Append(flow_results, r))
       ELSE onPass

\* mutant: compile_only also elaborates
AfterCompileDut_AlwaysElaborate(m) == "elaborate_dut"

\* lines 177-185: the check that follows a passing compile_dut
AfterCompileDut(m) == IF m = "compile_only" THEN "compile_tb" ELSE "elaborate_dut"

\* lines 178-199: a passing compile_tb ends the flow in the two compile modes
EndsAtCompileTb(m) == m \in {"compile_only", "compile_elaborate"}

OrchestratorFrame ==
    UNCHANGED <<other, fn_call, fn_result, max_iterations, mode, iteration, previous_error, final_analysis,
                iteration_log, run_log, ret, dut_file, tb_file, memory, removals>>

compile_dut ==
    /\ pc = "compile_dut"
    /\ IF ~dut_file.exists
       THEN /\ NoCmd("compile_dut")
            /\ FlowStep("compile_dut", MissingFile("compile_dut", LineDutNotFound),
                        FlowContinue(AfterCompileDut(mode)))
       ELSE \E o \in ToolOutcomes :
               LET r == RunCmdResult("verilator --lint-only rtl/my_dut.v", "compile_dut", o)
               IN  /\ _run_cmd(r.cmd, "compile_dut", r)
                   /\ FlowStep("compile_dut", r,
                               FlowContinue(AfterCompileDut(mode)))
    /\ OrchestratorFrame

elaborate_dut ==
    /\ pc = "elaborate_dut"
    /\ IF ~dut_file.exists
       THEN /\ NoCmd("elaborate_dut")
            /\ FlowStep("elaborate_dut", MissingFile("elaborate_dut", LineDutNotFound),
                        FlowContinue("compile_tb"))
       ELSE \E o \in ToolOutcomes :
               LET r == RunCmdResult("verilator --cc rtl/my_dut.v", "elaborate_dut", o)
               IN  /\ _run_cmd(r.cmd, "elaborate_dut", r)
                   /\ FlowStep("elaborate_dut", r, FlowContinue("compile_tb"))
    /\ OrchestratorFrame

compile_tb ==
    /\ pc = "compile_tb"
    /\ LET onPass == IF EndsAtCompileTb(mode)
                     THEN FlowReturn(TRUE, "ok", flow_results')
                     ELSE FlowContinue("run_simulation")
       IN  IF ~tb_file.exists
           THEN /\ NoCmd("compile_tb")
                /\ FlowStep("compile_tb", MissingFile("compile_tb", LineTbNotFound), onPass)
           ELSE IF ~dut_file.exists
           THEN /\ NoCmd("compile_tb")
                /\ FlowStep("compile_tb", MissingFile("compile_tb", LineDutNotFound), onPass)
           ELSE \E o \in ToolOutcomes :
                   LET r == RunCmdResult("verilator --lint-only --timing -Irtl rtl/my_dut.v tb/generated_tb.sv",
                                         "compile_tb", o)
                   IN  /\ _run_cmd(r.cmd, "compile_tb", r)
                       /\ FlowStep("compile_tb", r, onPass)
    /\ OrchestratorFrame

\* mutant: the stub reports a failure
StubResult_Fails ==
    Result("run_simulation", "(stub) no command run", 1,
           "Simulation step not fully implemented yet; this is a stub.", <<>>, "")

\* lines 153-161: the dict run_simulation returns
StubResult ==
    Result("run_simulation", "(stub) no command run", 0,
           "Simulation step not fully implemented yet; this is a stub.", <<>>, "")

\* the stub: no command, always exit status 0
run_simulation ==
    /\ pc = "run_simulation"
    /\ NoCmd("run_simulation")
    /\ FlowStep("run_simulation", StubResult, FlowReturn(TRUE, "ok", flow_results'))
    /\ OrchestratorFrame

\* ------------------------------------- test_simulation_agent.py, the loop
\* mutant: iteration numbers start at 1
NewIterationLog_OneBased(n) ==
    [iteration_number |-> n + 1, generation |-> <<>>, generation_error |-> Unset,
     simulation |-> <<>>, analysis |-> <<>>, will_retry |-> Unset,
     error_for_next_iteration |-> <<>>, reason |-> Unset]

NewIterationLog(n) ==
    [iteration_number |-> n, generation |-> <<>>, generation_error |-> Unset,
     simulation |-> <<>>, analysis |-> <<>>, will_retry |-> Unset,
     error_for_next_iteration |-> <<>>, reason |-> Unset]

NewRunLog(m, n) ==
    [mode |-> m, max_iterations |-> n, iterations |-> <<>>, final_status |-> Unset,
     success |-> <<>>, iterations_used |-> -1, final_analysis |-> <<>>,
     saved_at |-> FALSE]

\* no second run, no separate call
NoOtherRun == [pc |-> "none", data |-> <<>>]
NoCall == [fn |-> "none"]

\* a record an earlier run left in agent_memory.json
OldRun ==
    [NewRunLog("compile_only", 1) EXCEPT !.final_status = "success", !.success = <<TRUE>>,
                                        !.iterations_used = 1, !.saved_at = TRUE]

\* a harness an earlier run left in tb/generated_tb.sv
OldTb == <<"module", "old_tb", "end", "module", "NL">>

\* mutant: the outcome is not written into the run record
Finalize_NoStatus(log, status, ok, used, analysis) ==
    [log EXCEPT !.success = <<ok>>, !.iterations_used = used, !.final_analysis = analysis]

\* lines 361-364, 400-403, 438-441: the outcome keys of run_log
Finalize(log, status, ok, used, analysis) ==
    [log EXCEPT !.final_status = status, !.success = <<ok>>, !.iterations_used = used,
                !.final_analysis = analysis]

Return(s, step, res, analysis, used) ==
    /\ ret' = <<[success |-> s, failing_step |-> step, results |-> res,
                 analysis |-> analysis, iterations_used |-> used]>>
    /\ pc' = "done"

Init ==
    /\ pc = "loop_head"
    /\ max_iterations \in 0..MaxIterations
    /\ mode \in Modes
    /\ iteration = 0
    /\ previous_error = <<>>
    /\ final_analysis = <<>>
    /\ iteration_log = NewIterationLog(0)
    /\ run_log = NewRunLog(mode, max_iterations)
    /\ success = FALSE
    /\ failing_step = Unset
    /\ results = <<>>
    /\ flow_results = <<>>
    /\ ret = <<>>
    /\ dut_file \in {[exists |-> FALSE, kind |-> "none"]}
                     \cup {[exists |-> TRUE, kind |-> k] : k \in DutSamples}
    /\ tb_file \in {[exists |-> FALSE, code |-> <<>>], [exists |-> TRUE, code |-> OldTb]}
    /\ logs = [step \in ToolSteps |-> <<>>]
    /\ memory \in {[kind |-> "absent", data |-> <<>>], [kind |-> "corrupt", data |-> <<>>],
                    [kind |-> "list", data |-> <<OldRun>>]}
    /\ removals = 0
    /\ trace = <<>>
    /\ other = NoOtherRun
    /\ fn_call = NoCall
    /\ fn_result = <<>>

\* for iteration in range(max_iterations): ... iteration_log = {...}
LoopHead ==
    /\ pc = "loop_head"
    /\ IF iteration < max_iterations
       THEN /\ iteration_log' = NewIterationLog(iteration)
            /\ pc' = "generate"
       ELSE /\ pc' = "exhausted"
            /\ UNCHANGED iteration_log
    /\ UNCHANGED <<other, fn_call, fn_result, max_iterations, mode, iteration, previous_error, final_analysis, run_log,
                   success, failing_step, results, flow_results, ret, dut_file, tb_file,
                   logs, memory, removals, trace>>

\* ================================================ templates/error_fixes.py
\* number of lines of a diagnostic text
MaxLines == 2

\* ERROR_FIX_TEMPLATES: each template with the {names} it substitutes
ERROR_FIX_TEMPLATES ==
    [PINMISSING        |-> {"port", "module_name", "port_connections"},
     WIDTHTRUNC        |-> {"port", "expected_width", "actual_width", "correct_declaration"},
     WIDTHEXPAND       |-> {},
     SIGNAL_UNDECLARED |-> {"signal", "declaration"},
     WIRE_REG_MISMATCH |-> {"corrected_declarations"},
     MODULE_NOT_FOUND  |-> {"module", "correct_module_name"},
     SYNTAX_ERROR      |-> {},
     TIMING_ERROR      |-> {}]

\* a template as it stands, its {names} not substituted
Unfilled(template) == [template |-> template, filled |-> FALSE, kwargs |-> <<>>]

\* get_fix_for_error_type: template.format(**kwargs); format reads only the
\* names the template holds and raises KeyError when one is not given
get_fix_for_error_type(error_type, kwargs) ==
    LET template == IF error_type \in DOMAIN ERROR_FIX_TEMPLATES THEN error_type
                    ELSE "SYNTAX_ERROR"
        names == ERROR_FIX_TEMPLATES[template]
    IN  IF names \subseteq DOMAIN kwargs
        THEN [template |-> template, filled |-> TRUE,
              kwargs |-> [n \in names |-> kwargs[n]]]
        ELSE Unfilled(template)

\* parse_pinmissing_error: the first quoted pin of each line that has one
RECURSIVE parse_pinmissing_error(_)
parse_pinmissing_error(error_text) ==
    IF error_text = <<>> THEN <<>>
    ELSE (IF Head(error_text).pin # "" THEN <<Head(error_text).pin>> ELSE <<>>)
         \o parse_pinmissing_error(Tail(error_text))

\* parse_width_error: info with the keys that matched; re.search gives the
\* first match in the text
parse_width_error(error_text) ==
    LET port_match == SelectSeq(error_text, LAMBDA l : l.port # "")
        width_match == SelectSeq(error_text, LAMBDA l : l.bits # <<>>)
    IN  [port |-> IF port_match # <<>> THEN <<port_match[1].port>> ELSE <<>>,
         widths |-> IF width_match # <<>> THEN <<width_match[1].bits>> ELSE <<>>]

\* ports['inputs'] + ports['outputs']
AllPorts(ports) == ports.inputs \o ports.outputs

\* mutant: the connection list names the inputs only
PortConnections_InputsOnly(ports) ==
    [i \in 1..Len(ports.inputs) |-> [pin |-> ports.inputs[i][1], signal |-> ports.inputs[i][1]]]

\* lines 217-222: one line .name(name) per port of the descriptor
PortConnections(ports) ==
    [i \in 1..Len(AllPorts(ports)) |->
        [pin |-> AllPorts(ports)[i][1], signal |-> AllPorts(ports)[i][1]]]

\* mutant: the width of the first port of the descriptor, whatever its name
PortWidth_FirstPort(port_name, ports) ==
    IF AllPorts(ports) = <<>> THEN "" ELSE AllPorts(ports)[1][2]

\* lines 242-247: the width the descriptor gives for the port, "" when the
\* port is not in it
PortWidth(port_name, ports) ==
    LET found == SelectSeq(AllPorts(ports), LAMBDA p : p[1] = port_name)
    IN  IF found = <<>> THEN "" ELSE found[1][2]

\* lines 215-234
PinFixes(error_summary, ports) ==
    IF Contains(error_summary, "PINMISSING")
    THEN LET missing_ports == parse_pinmissing_error(error_summary)
         IN  IF missing_ports # <<>>
             THEN <<get_fix_for_error_type("PINMISSING",
                        [port |-> missing_ports, module_name |-> ports.module_name,
                         port_connections |-> PortConnections(ports)])>>
             ELSE <<>>
    ELSE <<>>

\* mutant: the width branch is skipped when a fix was already found
WidthFixes_Elif(error_summary, ports, fixes) ==
    IF fixes # <<>> THEN <<>>
    ELSE IF Contains(error_summary, "WIDTHTRUNC") \/ Contains(error_summary, "WIDTHEXPAND")
         THEN <<Unfilled("WIDTHTRUNC")>>
         ELSE <<>>

\* lines 236-264; fixes is the list built so far, which the branch does not
\* read
WidthFixes(error_summary, ports, fixes) ==
    IF Contains(error_summary, "WIDTHTRUNC") \/ Contains(error_summary, "WIDTHEXPAND")
    THEN LET width_info == parse_width_error(error_summary)
         IN  IF width_info.port # <<>>
             THEN LET port_name == width_info.port[1]
                      port_width == PortWidth(port_name, ports)
                      correct_decl == IF port_width # "" THEN <<"reg", port_width, port_name>>
                                      ELSE <<"reg", port_name>>
                  IN  <<get_fix_for_error_type("WIDTHTRUNC",
                          [port |-> port_name,
                           expected_width |-> IF width_info.widths # <<>>
                                              THEN width_info.widths[1][1] ELSE "N bits",
                           actual_width |-> IF width_info.widths # <<>>
                                            THEN width_info.widths[1][2] ELSE "M bits",
                           correct_declaration |-> correct_decl])>>
             ELSE <<Unfilled("WIDTHTRUNC")>>
    ELSE <<>>

\* lines 266-273
ModuleFixes(error_summary, ports) ==
    IF Contains(error_summary, "Cannot find") /\ Contains(error_summary, "module")
    THEN <<get_fix_for_error_type("MODULE_NOT_FOUND",
              [module |-> "<module>", correct_module_name |-> ports.module_name])>>
    ELSE <<>>

ReviewText == [template |-> "Review and fix the errors shown above.", filled |-> TRUE,
               kwargs |-> <<>>]

\* generate_targeted_error_prompt: the blocks of the returned text, in order
generate_targeted_error_prompt(error_summary, ports) ==
    LET pin == PinFixes(error_summary, ports)
        width == pin \o WidthFixes(error_summary, ports, pin)
        found == width \o ModuleFixes(error_summary, ports)
        fixes == IF found = <<>> /\ (Contains(error_summary, "Error")
                                      \/ Contains(error_summary, "error"))
                 THEN <<Unfilled("SYNTAX_ERROR")>>
                 ELSE found
    IN  IF fixes # <<>> THEN fixes ELSE <<ReviewText>>

\* ports = extract_dut_ports(dut_path) for the hardware descriptions on disk
DutPorts(dut) ==
    IF ~dut.exists THEN [module_name |-> "my_dut", inputs |-> <<>>, outputs |-> <<>>]
    ELSE IF dut.kind = "clk_rst"
         THEN [module_name |-> "counter",
               inputs |-> <<<<"clk", "">>, <<"rst", "">>>>, outputs |-> <<<<"q", "">>>>]
         ELSE [module_name |-> "adder",
               inputs |-> <<<<"a", "">>, <<"b", "">>>>, outputs |-> <<<<"y", "">>>>]

\* lines 152-163: what the refined prompt is given about the previous attempt
FeedbackFrom(prev, ports) ==
    LET error_summary == extract_error_summary(prev.results, prev.failing_step)
    IN  [failing_step |-> prev.failing_step,
         error_summary |-> error_summary,
         targeted_fixes |-> generate_targeted_error_prompt(error_summary, ports)]

\* mutant: every attempt is prompted like the first one
PromptFor_AlwaysFirst(it, prev) ==
    LET features == DutFeatures(dut_file)
        examples == get_examples_by_ports(features.has_clk, features.has_rst,
                                          features.has_multibit)
    IN  [system_prompt |-> build_system_prompt_with_examples(examples),
         user_prompt_template |-> TB_USER_PROMPT_FIRST,
         feedback |-> <<>>]

\* the system prompt, template and feedback generate_testbench sends
PromptFor(it, prev) ==
    IF it = 0 \/ prev = <<>>
    THEN LET features == DutFeatures(dut_file)
             examples == get_examples_by_ports(features.has_clk, features.has_rst,
                                               features.has_multibit)
         IN  [system_prompt |-> build_system_prompt_with_examples(examples),
              user_prompt_template |-> TB_USER_PROMPT_FIRST,
              feedback |-> <<>>]
    ELSE [system_prompt |-> <<TB_SYSTEM_PROMPT>>,
          user_prompt_template |-> TB_USER_PROMPT_REFINED,
          feedback |-> <<FeedbackFrom(prev[1], DutPorts(dut_file))>>]

\* mutant: a failed generation uses up the iteration and the loop goes on
GenerationFailed_Retry(error) ==
    LET failed_log == [iteration_log EXCEPT !.generation_error = error]
    IN  /\ iteration_log' = failed_log
        /\ run_log' = [run_log EXCEPT !.iterations = Append(@, failed_log)]
        /\ trace' = Append(trace, Event("generate", "llm", PromptFor(iteration, previous_error)))
        /\ pc' = "refine"
        /\ UNCHANGED <<tb_file, flow_results, memory, ret>>

\* the except branch of run_with_refinement
GenerationFailed(error) ==
    LET failed_log == [iteration_log EXCEPT !.generation_error = error]
        final_log == Finalize([run_log EXCEPT !.iterations = Append(@, failed_log)],
                              "generation_failed", FALSE, iteration + 1, <<>>)
    IN  /\ iteration_log' = failed_log
        /\ run_log' = [final_log EXCEPT !.saved_at = TRUE]
        /\ memory' = save_to_memory(final_log, memory)
        /\ trace' = trace \o <<Event("generate", "llm", PromptFor(iteration, previous_error)),
                                Event("save", "agent_memory", <<>>)>>
        /\ Return(FALSE, "testbench_generation", <<>>, <<"generation_error", error>>,
                  iteration + 1)
        /\ UNCHANGED <<tb_file, flow_results>>

\* mutant: a harness file that is there is not written again
WriteHarness_KeepExisting(file, code) ==
    IF file.exists THEN file ELSE [exists |-> TRUE, code |-> code]

\* line 217: tb_path.write_text(tb_code)
WriteHarness(file, code) == [exists |-> TRUE, code |-> code]

\* generate_testbench and its try/except in run_with_refinement
Generate ==
    /\ pc = "generate"
    /\ \/ GenerationFailed("llm call failed")
       \/ \E raw \in RawSamplesAt(iteration) :
             LET clean == sanitize_verilog_code(raw)
                 prompt == PromptFor(iteration, previous_error)
                 generation_log == [iteration |-> iteration, prompt |-> prompt,
                                    llm_raw_output |-> raw, sanitization_success |-> TRUE,
                                    testbench_code |-> clean.code]
             IN  IF ~clean.ok
                 THEN GenerationFailed("No valid Verilog module found in output.")
                 ELSE /\ tb_file' = WriteHarness(tb_file, clean.code)
                      /\ iteration_log' = [iteration_log EXCEPT !.generation = <<generation_log>>]
                      /\ trace' = Append(trace, Event("generate", "llm", prompt))
                      /\ flow_results' = <<>>
                      /\ pc' = "compile_dut"
                      /\ UNCHANGED <<run_log, memory, ret>>
    /\ UNCHANGED <<other, fn_call, fn_result, max_iterations, mode, iteration, previous_error, final_analysis,
                   success, failing_step, results, dut_file, logs, removals>>

\* mutant: the loop never stops on a passing verification
StopOnSuccess_Never(s) == FALSE

\* line 397: if success
StopOnSuccess(s) == s

\* mutant: only the recognised error lines of each stderr are logged
SimulationLog_SummaryOnly(m, s, step, res) ==
    [mode |-> m, success |-> s, failing_step |-> step,
     verilator_results |-> [i \in 1..Len(res) |->
                               [res[i] EXCEPT !.stderr = ErrorLines(res[i].stderr)]]]

\* lines 378-384: iteration_log["simulation"] holds the results dict of
\* run_flow itself
SimulationLog(m, s, step, res) ==
    [mode |-> m, success |-> s, failing_step |-> step, verilator_results |-> res]

\* lines 377-410: log the simulation and the analysis, append the iteration
\* log to the run log, and return when run_flow succeeded
RecordIteration ==
    /\ pc = "record"
    /\ LET analysis_log == analyze_with_llm(results)
           logged == [iteration_log EXCEPT
                        !.simulation = <<SimulationLog(mode, success, failing_step, results)>>,
                        !.analysis = <<analysis_log>>]
           appended == [run_log EXCEPT !.iterations = Append(@, logged)]
       IN  /\ final_analysis' = analysis_log.analysis_text
           /\ iteration_log' = logged
           /\ IF StopOnSuccess(success)
              THEN LET final_log == Finalize(appended, "success", TRUE, iteration + 1,
                                             <<analysis_log.analysis_text>>)
                   IN  /\ run_log' = [final_log EXCEPT !.saved_at = TRUE]
                       /\ memory' = save_to_memory(final_log, memory)
                       /\ trace' = Append(trace, Event("save", "agent_memory", <<>>))
                       /\ Return(TRUE, "ok", results, analysis_log.analysis_text, iteration + 1)
              ELSE /\ run_log' = appended
                   /\ pc' = "refine"
                   /\ UNCHANGED <<memory, trace, ret>>
    /\ UNCHANGED <<other, fn_call, fn_result, max_iterations, mode, iteration, previous_error, success, failing_step,
                   results, flow_results, dut_file, tb_file, logs, removals>>

\* iteration_log is the dict that was appended to run_log["iterations"]: a
\* key set through iteration_log is set in the appended record
SetInIterationLog(will_retry, summary, reason) ==
    LET changed == [iteration_log EXCEPT !.will_retry = will_retry,
                                         !.error_for_next_iteration = summary,
                                         !.reason = reason]
    IN  /\ iteration_log' = changed
        /\ run_log' = [run_log EXCEPT !.iterations[Len(run_log.iterations)] = changed]

\* mutant: the error context of the first failing iteration is kept
NextPreviousError_KeepFirst(prev, step, res, analysis) ==
    IF prev # <<>> THEN prev
    ELSE <<[failing_step |-> step, results |-> res, analysis |-> analysis]>>

\* lines 422-426: previous_error is rebuilt from this iteration's run_flow
NextPreviousError(prev, step, res, analysis) ==
    <<[failing_step |-> step, results |-> res, analysis |-> analysis]>>

\* lines 412-434: the retry decision, then the next turn of the loop
RefineDecision ==
    /\ pc = "refine"
    /\ IF iteration < max_iterations - 1
       THEN /\ previous_error' = NextPreviousError(previous_error, failing_step, results,
                                                  final_analysis)
            /\ SetInIterationLog("True", <<extract_error_summary(results, failing_step)>>, Unset)
       ELSE /\ SetInIterationLog("False", <<>>, "max_iterations_reached")
            /\ UNCHANGED previous_error
    /\ iteration' = iteration + 1
    /\ pc' = "loop_head"
    /\ UNCHANGED <<other, fn_call, fn_result, max_iterations, mode, final_analysis, success, failing_step, results,
                   flow_results, ret, dut_file, tb_file, logs, memory, removals, trace>>

\* lines 436-446: the loop ran out; finalize and save
Exhausted ==
    /\ pc = "exhausted"
    /\ LET final_log == Finalize(run_log, "max_iterations_reached", FALSE, max_iterations,
                                 <<final_analysis>>)
       IN  /\ run_log' = [final_log EXCEPT !.saved_at = TRUE]
           /\ memory' = save_to_memory(final_log, memory)
    /\ trace' = Append(trace, Event("save", "agent_memory", <<>>))
    /\ pc' = "return"
    /\ UNCHANGED <<other, fn_call, fn_result, max_iterations, mode, iteration, previous_error, final_analysis,
                   iteration_log, success, failing_step, results, flow_results, ret,
                   dut_file, tb_file, logs, removals>>

\* line 448: return False, failing_step, results, final_analysis, max_iterations;
\* failing_step and results are bound only by line 375, and reading an
\* unbound local raises UnboundLocalError
ReturnAfterLoop ==
    /\ pc = "return"
    /\ IF failing_step = Unset
       THEN /\ pc' = "raised"
            /\ UNCHANGED ret
       ELSE Return(FALSE, failing_step, results, final_analysis, max_iterations)
    /\ UNCHANGED <<other, fn_call, fn_result, max_iterations, mode, iteration, previous_error, final_analysis,
                   iteration_log, run_log, success, failing_step, results, flow_results,
                   dut_file, tb_file, logs, memory, removals, trace>>

\* the harness file is a path shared with whatever else runs in the
\* directory: it can be gone when compile_tb looks for it
RemoveHarness ==
    /\ pc \in {"compile_dut", "elaborate_dut", "compile_tb"}
    /\ removals < MaxRemovals
    /\ tb_file.exists
    /\ tb_file' = [exists |-> FALSE, code |-> <<>>]
    /\ removals' = removals + 1
    /\ UNCHANGED <<other, fn_call, fn_result, pc, max_iterations, mode, iteration, previous_error, final_analysis,
                   iteration_log, run_log, success, failing_step, results, flow_results,
                   ret, dut_file, logs, memory, trace>>

Next ==
    \/ LoopHead
    \/ Generate
    \/ compile_dut
    \/ elaborate_dut
    \/ compile_tb
    \/ run_simulation
    \/ RecordIteration
    \/ RefineDecision
    \/ Exhausted
    \/ ReturnAfterLoop
    \/ RemoveHarness

Spec == Init /\ [][Next]_vars

\* ======================================================= properties
Records == run_log.iterations

Terminated == pc \in {"done", "raised"}

CountEvents(op) == Cardinality({i \in 1..Len(trace) : trace[i].op = op})

\* every run_flow call starts with compile_dut
FlowRuns == Cardinality({i \in 1..Len(trace) : trace[i].op = "check" /\ trace[i].name = "compile_dut"})

\* the checks called in iteration k, in call order
ChecksOf(k) ==
    LET called == SelectSeq(trace, LAMBDA e : e.op = "check" /\ e.it = k)
    IN  [i \in 1..Len(called) |-> called[i].name]

StepsOf(res) == [i \in 1..Len(res) |-> res[i].step]

AllPass(res) == \A i \in 1..Len(res) : res[i].returncode = 0

GenerationFailedIn(rec) == rec.generation_error # Unset
VerificationFailedIn(rec) == rec.simulation # <<>> /\ ~rec.simulation[1].success
VerificationPassedIn(rec) ==
    rec.simulation # <<>> /\ AllPass(rec.simulation[1].verilator_results)

Returned(s, step, used) ==
    /\ pc = "done"
    /\ ret # <<>>
    /\ ret[1].success = s
    /\ ret[1].failing_step = step
    /\ ret[1].iterations_used = used

\* C1: a terminated run in which every verification failed and no generation
\* failed has made exactly max_iterations generation calls and
\* max_iterations verification runs and has returned the
\* max-iterations-reached outcome (success false, final_status
\* max_iterations_reached, iterations_used = max_iterations), for every
\* max_iterations
C1_LoopTermination ==
    (Terminated /\ \A i \in 1..Len(Records) : VerificationFailedIn(Records[i]))
        => /\ CountEvents("generate") = max_iterations
           /\ FlowRuns = max_iterations
           /\ run_log.final_status = "max_iterations_reached"
           /\ pc = "done"
           /\ ret # <<>>
           /\ ret[1].success = FALSE
           /\ ret[1].iterations_used = max_iterations

\* C1 with a budget of at least one iteration (holds)
C1_PositiveBudget == max_iterations >= 1 => C1_LoopTermination

C4_TerminalStates ==
    Terminated
        => /\ pc = "done"
           /\ ret # <<>>
           /\ run_log.final_status \in {"success", "generation_failed", "max_iterations_reached"}
           /\ run_log.final_status = "success" <=> ret[1].success
           /\ run_log.final_status = "generation_failed"
                  <=> ret[1].failing_step = "testbench_generation"
           /\ run_log.final_status = "max_iterations_reached"
                  <=> (~ret[1].success /\ ret[1].failing_step # "testbench_generation")
           /\ run_log.success = <<ret[1].success>>

\* C4 with a budget of at least one iteration (holds)
C4_PositiveBudget == max_iterations >= 1 => C4_TerminalStates

\* the checks of a mode, in order (class docstring of RTLRunner)
ModeChecks(m) ==
    CASE m = "compile_only" -> <<"compile_dut", "compile_tb">>
      [] m = "compile_elaborate" -> <<"compile_dut", "elaborate_dut", "compile_tb">>
      [] m = "full_sim" -> <<"compile_dut", "elaborate_dut", "compile_tb", "run_simulation">>

FlowPcs == {"compile_dut", "elaborate_dut", "compile_tb", "run_simulation"}

IsPrefix(a, b) == Len(a) <= Len(b) /\ a = SubSeq(b, 1, Len(a))

\* C5: while run_flow runs no recorded check has failed, and when it returns
\* a failure the result set holds exactly the checks called in this
\* iteration, in the order of the mode, all with exit status 0 except the
\* last one, which is the failing step; no other check of the mode was called
C5_FailFast ==
    /\ pc \in FlowPcs => AllPass(flow_results)
    /\ (pc = "record" /\ ~success)
          => /\ results # <<>>
             /\ AllPass(SubSeq(results, 1, Len(results) - 1))
             /\ Last(results).returncode # 0
             /\ failing_step = Last(results).step
             /\ ChecksOf(iteration) = StepsOf(results)
             /\ IsPrefix(StepsOf(results), ModeChecks(mode))

C5_Witness ==
    /\ pc = "record"
    /\ ~success
    /\ mode = "compile_elaborate"
    /\ failing_step = "elaborate_dut"
    /\ ChecksOf(iteration) = <<"compile_dut", "elaborate_dut">>

\* C6: when run_flow returns success, the checks called in this iteration
\* and the checks in the result set are exactly the checks of the mode, each
\* once, in the order compile_dut, elaborate_dut, compile_tb, run_simulation
C6_ModeChecks ==
    (pc = "record" /\ success)
        => /\ failing_step = "ok"
           /\ AllPass(results)
           /\ StepsOf(results) = ModeChecks(mode)
           /\ ChecksOf(iteration) = ModeChecks(mode)

C6_Witness ==
    /\ pc = "record"
    /\ success
    /\ mode = "compile_only"
    /\ iteration = 1

IsSynthetic(r) ==
    /\ r.returncode = 1
    /\ r.cmd = ""
    /\ r.log_path = ""
    /\ r.stderr \in {<<LineDutNotFound>>, <<LineTbNotFound>>}

\* the file the check at position p needs is absent
FileMissingFor(p) ==
    \/ p \in ToolSteps /\ ~dut_file.exists
    \/ p = "compile_tb" /\ ~tb_file.exists

\* C7: a check that finds its hardware description or harness file absent
\* adds a synthetic failure (exit status 1, message in stderr, empty command
\* and log path) without running the tool or writing a log, and run_flow
\* returns it as the failing step; the orchestrator records it, takes the
\* retry decision as for any failure and starts the next iteration while
\* iterations remain
C7_MissingArtifact ==
    [][/\ (pc \in ToolSteps /\ FileMissingFor(pc) /\ pc' # pc)
            => /\ Len(flow_results') = Len(flow_results) + 1
               /\ IsSynthetic(Last(flow_results'))
               /\ Last(flow_results').step = pc
               /\ logs' = logs
               /\ CountEvents("tool")' = CountEvents("tool")
               /\ pc' = "record"
               /\ ~success'
               /\ failing_step' = pc
               /\ results' = flow_results'
       /\ (pc = "record" /\ ~success /\ IsSynthetic(Last(results)))
            => pc' = "refine"
       /\ (pc = "refine" /\ IsSynthetic(Last(results)))
            => /\ pc' = "loop_head"
               /\ iteration' = iteration + 1
               /\ iteration' < max_iterations
                    => previous_error' = <<[failing_step |-> failing_step,
                                            results |-> results,
                                            analysis |-> final_analysis]>>
       /\ (pc = "loop_head" /\ iteration < max_iterations)
            => pc' = "generate"
      ]_vars

C7_Witness ==
    /\ pc = "generate"
    /\ iteration = 1
    /\ dut_file.exists
    /\ IsSynthetic(Last(results))
    /\ Last(results).stderr = <<LineTbNotFound>>
    /\ previous_error # <<>>

\* C8: the generation call of iteration 0 carries the system prompt with
\* examples, the first-attempt user prompt and no feedback; the generation
\* call of every iteration k >= 1 carries the base system prompt alone, the
\* refined user prompt and the feedback of iteration k-1
C8_PromptSchedule ==
    \A j \in 1..Len(trace) :
        trace[j].op = "generate"
            => LET p == trace[j].arg
                   k == trace[j].it
               IN  IF k = 0
                   THEN /\ Len(p.system_prompt) > 1
                        /\ Head(p.system_prompt) = TB_SYSTEM_PROMPT
                        /\ p.user_prompt_template = TB_USER_PROMPT_FIRST
                        /\ p.feedback = <<>>
                   ELSE /\ p.system_prompt = <<TB_SYSTEM_PROMPT>>
                        /\ p.user_prompt_template = TB_USER_PROMPT_REFINED
                        /\ p.feedback # <<>>
                        /\ p.feedback[1].failing_step = Records[k].simulation[1].failing_step
                        /\ p.feedback[1].failing_step \in FlowPcs

C8_Witness ==
    \E j \in 1..Len(trace) :
        /\ trace[j].op = "generate"
        /\ trace[j].it = 2
        /\ trace[j].arg.user_prompt_template = TB_USER_PROMPT_REFINED

\* C9: the i-th record of the run has iteration number i-1, and once the
\* run is finalized or has returned, the number of records equals
\* iterations_used
C9_IterationRecords ==
    /\ \A i \in 1..Len(Records) : Records[i].iteration_number = i - 1
    /\ run_log.final_status # Unset => run_log.iterations_used = Len(Records)
    /\ pc = "done" => ret[1].iterations_used = Len(Records)

C9_Witness ==
    /\ pc = "done"
    /\ Len(Records) = 3
    /\ run_log.final_status = "max_iterations_reached"

\* C10: a record that is in the run's iterations list is never changed by a
\* later step
C10_NoMutationAfterAppend ==
    [][\A i \in 1..Len(Records) : Records'[i] = Records[i]]_vars

\* the stderr text of the failing check as recorded in an iteration record
FailingStderrIn(rec) ==
    Lookup(rec.simulation[1].verilator_results, rec.simulation[1].failing_step).stderr

Unrecognized(stderr) == stderr # <<>> /\ ErrorLines(stderr) = <<>>

\* C11: the record appended for an iteration in which verification ran holds
\* the complete result set the driver returned, every tool-run result in it
\* carries the stderr text the tool wrote (the text of the per-check log),
\* recognised or not, and no later step changes the simulation part of a
\* record that is in the audit trail
C11_RawDiagnosticsRetained ==
    [][/\ \A k \in 1..Len(Records) : Records'[k].simulation = Records[k].simulation
       /\ pc = "record" =>
             LET rec == Last(Records')
             IN  /\ Len(Records') = Len(Records) + 1
                 /\ rec.simulation # <<>>
                 /\ rec.simulation[1].verilator_results = results
                 /\ rec.simulation[1].failing_step = failing_step
                 /\ \A i \in 1..Len(results) :
                       results[i].log_path # "" =>
                         rec.simulation[1].verilator_results[i].stderr
                            = logs[results[i].step][1].stderr]_vars

\* a saved run whose record holds a failing stderr that mixes a recognised
\* line with an unrecognised one, and another whose failing stderr has no
\* recognised line at all
C11_Witness ==
    /\ pc = "done"
    /\ memory.kind = "list"
    /\ LET saved == Last(memory.data).iterations
       IN  /\ \E k \in 1..Len(saved) :
                 /\ VerificationFailedIn(saved[k])
                 /\ FailingStderrIn(saved[k]) = <<LineSyntax, LineAborted>>
           /\ \E k \in 1..Len(saved) :
                 /\ VerificationFailedIn(saved[k])
                 /\ Unrecognized(FailingStderrIn(saved[k]))

Saves == CountEvents("save")

Finalized(log) ==
    /\ log.final_status \in {"success", "generation_failed", "max_iterations_reached"}
    /\ log.success # <<>>
    /\ log.iterations_used >= 0

RECURSIVE ResultsOf(_)
ResultsOf(recs) ==
    IF recs = <<>> THEN <<>>
    ELSE (IF Head(recs).simulation = <<>> THEN <<>>
          ELSE Head(recs).simulation[1].verilator_results)
         \o ResultsOf(Tail(recs))

\* the results of all tool invocations of the run so far, oldest first
ToolResults ==
    LET current == IF pc \in FlowPcs THEN flow_results
                   ELSE IF pc = "record" THEN results ELSE <<>>
    IN  SelectSeq(ResultsOf(Records) \o current, LAMBDA r : r.log_path # "")

LogOf(r) == <<[cmd |-> r.cmd, stdout |-> r.stdout, stderr |-> r.stderr]>>

ToolRunsOf(s) ==
    Cardinality({i \in 1..Len(trace) : trace[i].op = "tool" /\ trace[i].name = s})

\* C15: the step in which a check invokes the tool writes the log of that
\* check with the command and the output of that invocation, whatever the
\* exit status, together with handing back the result; no other step
\* writes a log; so the log of a check always holds the output of the
\* check's most recent tool invocation
C15_LogWrittenEveryInvocation ==
    /\ [](\A s \in ToolSteps :
            LET mine == SelectSeq(ToolResults, LAMBDA r : r.step = s)
            IN  /\ Len(mine) = ToolRunsOf(s)
                /\ logs[s] = IF mine = <<>> THEN <<>> ELSE LogOf(Last(mine)))
    /\ [][IF Len(trace') > Len(trace) /\ Last(trace').op = "tool"
           THEN LET r == Last(flow_results')
                IN  /\ Len(flow_results') = Len(flow_results) + 1
                    /\ r.step = Last(trace').name
                    /\ r.step = pc
                    /\ logs' = [logs EXCEPT ![r.step] = LogOf(r)]
           ELSE logs' = logs]_vars

\* the first invocation of compile_dut exited with status 1, the second
\* with status 2, and the log holds the output of the second
C15_Witness ==
    /\ pc = "record"
    /\ Len(Records) = 1
    /\ VerificationFailedIn(Records[1])
    /\ FailingStderrIn(Records[1]) = <<LinePin, LineExit>>
    /\ Records[1].simulation[1].failing_step = "compile_dut"
    /\ failing_step = "compile_dut"
    /\ results[1].returncode = 2
    /\ ToolRunsOf("compile_dut") = 2
    /\ logs["compile_dut"] = LogOf(results[1])
    /\ logs["compile_dut"][1].stderr = <<LineSyntax, LineAborted>>

\* ============================================ save_to_memory called alone
\* number of calls in a sequence of saves
MaxSaves == 3

\* the variables of run_with_refinement, at rest while a function is
\* called on its own
RunVars == <<pc, max_iterations, mode, iteration, previous_error, final_analysis,
             iteration_log, run_log, success, failing_step, results, flow_results,
             ret, dut_file, tb_file, logs, removals>>

NoRun ==
    /\ pc = "none"
    /\ max_iterations = 0
    /\ mode = "compile_only"
    /\ iteration = 0
    /\ previous_error = <<>>
    /\ final_analysis = <<>>
    /\ iteration_log = NewIterationLog(0)
    /\ run_log = NewRunLog("compile_only", 0)
    /\ success = FALSE
    /\ failing_step = Unset
    /\ results = <<>>
    /\ flow_results = <<>>
    /\ ret = <<>>
    /\ dut_file = [exists |-> FALSE, kind |-> "none"]
    /\ tb_file = [exists |-> FALSE, code |-> <<>>]
    /\ logs = [step \in ToolSteps |-> <<>>]
    /\ removals = 0

\* run records handed to save_to_memory
SampleRecords ==
    {Finalize(NewRunLog(m, 1), "generation_failed", FALSE, 1, <<>>) : m \in Modes}

\* agent_memory.json before the first call: no file, a file json.loads
\* rejects, a list, or valid JSON that is not a list
MemorySamples ==
    {[kind |-> "absent", data |-> <<>>], [kind |-> "corrupt", data |-> <<>>],
     [kind |-> "list", data |-> <<>>], [kind |-> "list", data |-> <<OldRun>>],
     [kind |-> "nonlist", data |-> <<>>]}

\* fn_call holds the file as it was before the first call and the records
\* passed so far; fn_result holds how each call ended
InitMem ==
    /\ NoRun
    /\ memory \in MemorySamples
    /\ fn_call = [fn |-> "save_to_memory", before |-> memory, args |-> <<>>]
    /\ fn_result = <<>>
    /\ other = NoOtherRun
    /\ trace = <<>>

SaveReturns ==
    /\ Len(fn_call.args) < MaxSaves
    /\ ~SaveRaises(memory)
    /\ \E memory_data \in SampleRecords :
          /\ memory' = save_to_memory(memory_data, memory)
          /\ fn_call' = [fn_call EXCEPT !.args = Append(@, memory_data)]
    /\ fn_result' = Append(fn_result, "None")
    /\ trace' = Append(trace, Event("save", "agent_memory", <<>>))
    /\ UNCHANGED RunVars
    /\ UNCHANGED other

SaveRaisesError ==
    /\ Len(fn_call.args) < MaxSaves
    /\ SaveRaises(memory)
    /\ \E memory_data \in SampleRecords :
          /\ memory' = save_to_memory(memory_data, memory)
          /\ fn_call' = [fn_call EXCEPT !.args = Append(@, memory_data)]
    /\ fn_result' = Append(fn_result, "AttributeError")
    /\ trace' = Append(trace, Event("save", "agent_memory", <<>>))
    /\ UNCHANGED RunVars
    /\ UNCHANGED other

NextMem == SaveReturns \/ SaveRaisesError

SpecMem == InitMem /\ [][NextMem]_vars

StampedAll(recs) == [i \in 1..Len(recs) |-> Stamped(recs[i])]

\* C13: a save on a log that holds a list leaves the list followed by the
\* new record, and n saves on an absent log leave exactly the n records in
\* save order
C13_AppendKeepsEarlierRecords ==
    /\ [][memory.kind = "list" =>
             /\ memory'.kind = "list"
             /\ memory'.data = Append(memory.data, Stamped(Last(fn_call'.args)))
             /\ Last(fn_result') = "None"]_vars
    /\ [](fn_call.before.kind = "list" =>
             memory.data = fn_call.before.data \o StampedAll(fn_call.args))
    /\ [](fn_call.before.kind = "absent" /\ fn_call.args # <<>> =>
             /\ memory.kind = "list"
             /\ memory.data = StampedAll(fn_call.args))

\* three saves of different records on an absent log
C13_Witness ==
    /\ fn_call.before.kind = "absent"
    /\ Len(fn_call.args) = 3
    /\ Len(memory.data) = 3
    /\ memory.data[1].mode = "compile_only"
    /\ memory.data[2].mode = "full_sim"
    /\ memory.data[3].mode = "compile_elaborate"

\* C14: a save on a log that exists and cannot be read as a list of records
\* returns normally and leaves a log holding only the new record
C14_UnreadableLogIsEmptyList ==
    [][memory.kind \in {"corrupt", "nonlist"} =>
          /\ memory' = [kind |-> "list", data |-> <<Stamped(Last(fn_call'.args))>>]
          /\ Last(fn_result') = "None"]_vars

\* the part of C14 the code keeps: text that json.loads rejects
C14_CorruptLogIsEmptyList ==
    [][memory.kind = "corrupt" =>
          /\ memory' = [kind |-> "list", data |-> <<Stamped(Last(fn_call'.args))>>]
          /\ Last(fn_result') = "None"]_vars

\* ------------------------------- generate_targeted_error_prompt called alone
\* diagnostic lines: what the function's searches find in each
PinLines ==
    {Line("%Error-PINMISSING: tb/generated_tb.sv:5: Cell has missing pin: 'p'",
          {"Error", "PINMISSING"}, p, "", <<>>) : p \in {"rst", "clk"}}
    \cup {Line("%Error-PINMISSING: see the instantiation", {"Error", "PINMISSING"}, "", "", <<>>)}

WidthLines ==
    {Line("%Warning-WIDTHTRUNC: Wrong width for port 'p': expects a bits, got b bits",
          {"WIDTHTRUNC"}, "", p, w) :
        p \in {"", "data", "ghost"}, w \in {<<>>, <<"8", "4">>, <<"4", "8">>}}
    \cup {Line("%Warning-WIDTHEXPAND: Wrong width for port 'p': expects a bits, got b bits",
                {"WIDTHEXPAND"}, "", "data", <<"8", "4">>),
           Line("%Warning-WIDTHTRUNC: Wrong width for port 'p': expects a bits, got b bits",
                {"WIDTHTRUNC"}, "", "rst", <<"1", "8">>)}

LineModuleNotFound ==
    Line("%Error: Cannot find file containing module: 'my_dtu'",
         {"Error", "Cannot find", "module"}, "", "", <<>>)
LineUndeclared ==
    Line("%Error: tb/generated_tb.sv:9: Can't find definition of variable: 'x'",
         {"Error", "Can't find definition of variable"}, "", "", <<>>)
LineWireReg ==
    Line("%Error-PROCASSWIRE: Procedural assignment to wire, perhaps intended var",
         {"Error", "PROCASSWIRE", "wire"}, "", "", <<>>)
LineTiming ==
    Line("%Error-NEEDTIMINGOPT: Use --timing or --no-timing to specify how delays should be handled",
         {"Error", "NEEDTIMINGOPT", "timing", "delay"}, "", "", <<>>)

DiagLines ==
    PinLines \cup WidthLines
    \cup {LineModuleNotFound, LineUndeclared, LineWireReg, LineTiming, LineAborted}

DiagTexts == UNION {[1..n -> DiagLines] : n \in 1..MaxLines}

\* interface descriptors as extract_dut_ports returns them; the second is
\* the descriptor of an absent file
PortSamples ==
    {[module_name |-> "counter",
      inputs |-> <<<<"clk", "">>, <<"rst", "">>, <<"data", "[7:0]">>>>,
      outputs |-> <<<<"q", "[3:0]">>>>],
     [module_name |-> "my_dut", inputs |-> <<>>, outputs |-> <<>>],
     [module_name |-> "alu",
      inputs |-> <<<<"data", "[15:0]">>>>,
      outputs |-> <<<<"rst", "">>, <<"y", "[15:0]">>>>]}

InitFix ==
    /\ NoRun
    /\ memory = [kind |-> "absent", data |-> <<>>]
    /\ other = NoOtherRun
    /\ trace = <<>>
    /\ \E error_summary \in DiagTexts, ports \in PortSamples :
          fn_call = [fn |-> "generate_targeted_error_prompt",
                     error_summary |-> error_summary, ports |-> ports]
    /\ fn_result = <<>>

CallTargeted ==
    /\ fn_result = <<>>
    /\ fn_result' = generate_targeted_error_prompt(fn_call.error_summary, fn_call.ports)
    /\ UNCHANGED RunVars
    /\ UNCHANGED <<memory, other, trace, fn_call>>

NextFix == CallTargeted

SpecFix == InitFix /\ [][NextFix]_vars

Blocks(template) == SelectSeq(fn_result, LAMBDA b : b.template = template)
HasBlock(template) == Blocks(template) # <<>>

\* C17: a text with the missing-connection marker and a quoted missing pin
\* and with a width marker gets a filled PINMISSING block and, after it, a
\* width block
C17_BothKindsEmitted ==
    fn_result # <<>>
    /\ Contains(fn_call.error_summary, "PINMISSING")
    /\ (\E i \in 1..Len(fn_call.error_summary) : fn_call.error_summary[i].pin # "")
    /\ (Contains(fn_call.error_summary, "WIDTHTRUNC")
         \/ Contains(fn_call.error_summary, "WIDTHEXPAND"))
    => /\ Len(fn_result) >= 2
       /\ fn_result[1].template = "PINMISSING" /\ fn_result[1].filled
       /\ fn_result[2].template = "WIDTHTRUNC"
       /\ Len(Blocks("PINMISSING")) = 1
       /\ Len(Blocks("WIDTHTRUNC")) = 1

C17_Witness ==
    /\ fn_call.error_summary
         = <<Line("%Warning-WIDTHEXPAND: Wrong width for port 'p': expects a bits, got b bits",
                  {"WIDTHEXPAND"}, "", "data", <<"8", "4">>),
             Line("%Error-PINMISSING: tb/generated_tb.sv:5: Cell has missing pin: 'p'",
                  {"Error", "PINMISSING"}, "rst", "", <<>>)>>
    /\ HasBlock("PINMISSING")
    /\ HasBlock("WIDTHTRUNC")

\* the port the first "port '...'" of the text names, "" if there is none
NamedPort ==
    LET naming == SelectSeq(fn_call.error_summary, LAMBDA l : l.port # "")
    IN  IF naming = <<>> THEN "" ELSE naming[1].port

\* the pair of bit counts the text shows first, <<>> if there is none
ShownBits ==
    LET showing == SelectSeq(fn_call.error_summary, LAMBDA l : l.bits # <<>>)
    IN  IF showing = <<>> THEN <<>> ELSE showing[1].bits

HasWidthMarker ==
    Contains(fn_call.error_summary, "WIDTHTRUNC") \/ Contains(fn_call.error_summary, "WIDTHEXPAND")

\* C18: when the width diagnostic names a port of the descriptor, the one
\* width block is filled, its declaration line is reg, the descriptor's
\* range of that port (nothing for a one-bit port) and the port name, and
\* the numbers of the diagnostic are the expected and provided widths only
C18_RangeFromDescriptor ==
    fn_result # <<>> /\ HasWidthMarker
    /\ (\E i \in 1..Len(AllPorts(fn_call.ports)) : AllPorts(fn_call.ports)[i][1] = NamedPort)
    => LET all == AllPorts(fn_call.ports)
           i == CHOOSE k \in 1..Len(all) :
                   all[k][1] = NamedPort /\ \A j \in 1..(k - 1) : all[j][1] # NamedPort
           range == all[i][2]
           block == Blocks("WIDTHTRUNC")[1]
       IN  /\ Len(Blocks("WIDTHTRUNC")) = 1
           /\ block.filled
           /\ block.kwargs.port = NamedPort
           /\ block.kwargs.correct_declaration
                = IF range = "" THEN <<"reg", NamedPort>> ELSE <<"reg", range, NamedPort>>
           /\ IF ShownBits = <<>>
              THEN block.kwargs.expected_width = "N bits" /\ block.kwargs.actual_width = "M bits"
              ELSE /\ block.kwargs.expected_width = ShownBits[1]
                   /\ block.kwargs.actual_width = ShownBits[2]
                   /\ \A k \in 1..Len(block.kwargs.correct_declaration) :
                        block.kwargs.correct_declaration[k] \notin {ShownBits[1], ShownBits[2]}

\* the diagnostic shows 4 and 8 bits for port data, which the descriptor
\* declares as [7:0]
C18_Witness ==
    /\ fn_call.ports.module_name = "counter"
    /\ NamedPort = "data"
    /\ ShownBits = <<"4", "8">>
    /\ HasBlock("WIDTHTRUNC")
    /\ Blocks("WIDTHTRUNC")[1].kwargs.correct_declaration = <<"reg", "[7:0]", "data">>
    /\ Blocks("WIDTHTRUNC")[1].kwargs.expected_width = "4"

\* C19: the PINMISSING block carries the descriptor's module name and one
\* connection .name(name) for each input, then each output, in the
\* descriptor's order, whichever pins were reported missing
C19_CompleteConnectionList ==
    fn_result # <<>> /\ HasBlock("PINMISSING")
    => LET block == Blocks("PINMISSING")[1]
           ins == fn_call.ports.inputs
           outs == fn_call.ports.outputs
           conns == block.kwargs.port_connections
       IN  /\ Len(Blocks("PINMISSING")) = 1
           /\ block.filled
           /\ block.kwargs.module_name = fn_call.ports.module_name
           /\ Len(conns) = Len(ins) + Len(outs)
           /\ \A i \in 1..Len(ins) : conns[i] = [pin |-> ins[i][1], signal |-> ins[i][1]]
           /\ \A i \in 1..Len(outs) :
                 conns[Len(ins) + i] = [pin |-> outs[i][1], signal |-> outs[i][1]]

\* one pin reported missing, four connections listed
C19_Witness ==
    /\ fn_call.ports.module_name = "counter"
    /\ HasBlock("PINMISSING")
    /\ Blocks("PINMISSING")[1].kwargs.port = <<"rst">>
    /\ Len(Blocks("PINMISSING")[1].kwargs.port_connections) = 4
    /\ Blocks("PINMISSING")[1].kwargs.port_connections[4] = [pin |-> "q", signal |-> "q"]

\* the kinds of spec section "recognized by marker tokens", by template
MarkerKinds == {"SIGNAL_UNDECLARED", "WIRE_REG_MISMATCH", "MODULE_NOT_FOUND", "TIMING_ERROR"}

\* the templates that occur in the feedback for some diagnostic text
EmittedTemplates ==
    {b.template : b \in UNION {{generate_targeted_error_prompt(t, p)[i] :
                                   i \in 1..Len(generate_targeted_error_prompt(t, p))} :
                                 t \in DiagTexts, p \in PortSamples}}

\* C20: for each of the four kinds there is a diagnostic text whose feedback
\* holds the kind's own block, and a MODULE_NOT_FOUND block names the
\* descriptor's module
C20_EveryKindHasItsBlock ==
    /\ MarkerKinds \subseteq EmittedTemplates
    /\ fn_result # <<>> /\ HasBlock("MODULE_NOT_FOUND")
         => Blocks("MODULE_NOT_FOUND")[1].kwargs.correct_module_name = fn_call.ports.module_name

\* the part of C20 the code keeps: "Cannot find" together with "module"
\* gives the MODULE_NOT_FOUND block with the descriptor's module name
C20_ModuleNotFoundRecognized ==
    fn_result # <<>>
    => (HasBlock("MODULE_NOT_FOUND")
          <=> Contains(fn_call.error_summary, "Cannot find")
              /\ Contains(fn_call.error_summary, "module"))
       /\ (HasBlock("MODULE_NOT_FOUND")
          => /\ Blocks("MODULE_NOT_FOUND")[1].filled
             /\ Blocks("MODULE_NOT_FOUND")[1].kwargs.correct_module_name
                  = fn_call.ports.module_name)

\* no diagnostic text gives any of the other three blocks
C20_OtherKindsNeverEmitted ==
    fn_result # <<>>
    => ~HasBlock("SIGNAL_UNDECLARED") /\ ~HasBlock("WIRE_REG_MISMATCH") /\ ~HasBlock("TIMING_ERROR")

\* ===================================== two runs in one process (streamlit.py)
\* Each web session calls run_simulation, which builds its own RTLRunner;
\* RTLRunner.__init__ derives rtl/my_dut.v, tb/generated_tb.sv and logs/ from
\* the directory of rtl_runner.py, and run_with_refinement derives
\* agent_memory.json from its own directory: the files of the second run are
\* the files of the first. The second run is followed only where it
\* touches them.
OtherTb == <<"module", "other_tb", "end", "module", "NL">>

OtherRecord == Finalize(NewRunLog("compile_only", 1), "success", TRUE, 1, <<>>)

InitTwoRuns ==
    /\ pc = "loop_head"
    /\ max_iterations = 1
    /\ mode = "full_sim"
    /\ iteration = 0
    /\ previous_error = <<>>
    /\ final_analysis = <<>>
    /\ iteration_log = NewIterationLog(0)
    /\ run_log = NewRunLog(mode, max_iterations)
    /\ success = FALSE
    /\ failing_step = Unset
    /\ results = <<>>
    /\ flow_results = <<>>
    /\ ret = <<>>
    /\ dut_file = [exists |-> TRUE, kind |-> "clk_rst"]
    /\ tb_file = [exists |-> FALSE, code |-> <<>>]
    /\ logs = [step \in ToolSteps |-> <<>>]
    /\ memory = [kind |-> "list", data |-> <<OldRun>>]
    /\ removals = 0
    /\ trace = <<>>
    /\ other = [pc |-> "save_dut", data |-> <<>>]
    /\ fn_call = NoCall
    /\ fn_result = <<>>

\* what a step of the second run leaves alone: the first run's locals
OtherFrame ==
    /\ UNCHANGED <<pc, max_iterations, mode, iteration, previous_error, final_analysis,
                   iteration_log, run_log, success, failing_step, results, flow_results,
                   ret, removals, trace, fn_call, fn_result>>

\* streamlit.py line 105: save_dut_to_file writes rtl/my_dut.v
OtherSaveDut ==
    /\ other.pc = "save_dut"
    /\ dut_file' = [exists |-> TRUE, kind |-> "comb"]
    /\ other' = [other EXCEPT !.pc = "generate"]
    /\ UNCHANGED <<tb_file, logs, memory>>
    /\ OtherFrame

\* generate_testbench line 217: tb_path.write_text
OtherGenerate ==
    /\ other.pc = "generate"
    /\ tb_file' = [exists |-> TRUE, code |-> OtherTb]
    /\ other' = [other EXCEPT !.pc = "compile_tb"]
    /\ UNCHANGED <<dut_file, logs, memory>>
    /\ OtherFrame

\* _run_cmd lines 40-46: logs/compile_tb.log is opened with "w"
OtherCompileTb ==
    /\ other.pc = "compile_tb"
    /\ \E o \in ToolOutcomes :
          logs' = [logs EXCEPT !["compile_tb"] =
                      <<[cmd |-> "verilator --lint-only --timing -Irtl rtl/my_dut.v tb/generated_tb.sv",
                         stdout |-> "", stderr |-> o.stderr]>>]
    /\ other' = [other EXCEPT !.pc = "load"]
    /\ UNCHANGED <<dut_file, tb_file, memory>>
    /\ OtherFrame

\* save_to_memory lines 284-290: the second run reads the log
OtherLoad ==
    /\ other.pc = "load"
    /\ ~SaveRaises(memory)
    /\ other' = [pc |-> "write", data |-> LoadedData(memory).data]
    /\ UNCHANGED <<dut_file, tb_file, logs, memory>>
    /\ OtherFrame

\* save_to_memory lines 292-296: and writes what it read plus its record
OtherWrite ==
    /\ other.pc = "write"
    /\ memory' = [kind |-> "list", data |-> Append(other.data, Stamped(OtherRecord))]
    /\ other' = [other EXCEPT !.pc = "done"]
    /\ UNCHANGED <<dut_file, tb_file, logs>>
    /\ OtherFrame

OtherRun == OtherSaveDut \/ OtherGenerate \/ OtherCompileTb \/ OtherLoad \/ OtherWrite

NextTwoRuns == Next \/ OtherRun

SpecTwoRuns == InitTwoRuns /\ [][NextTwoRuns]_vars

InLog(rec) == \E i \in 1..Len(memory.data) : memory.data[i] = rec

\* C16: no step of the second run changes the hardware description file,
\* the harness file, the per-check logs or the audit log of the first run;
\* when the first run reaches compile_tb the harness on disk is the one it
\* generated; and when both runs are over both run records are in the log
C16_NoSharedState ==
    /\ [][other' # other => UNCHANGED <<dut_file, tb_file, logs, memory>>]_vars
    /\ [](pc = "compile_tb" /\ tb_file.exists
            => tb_file.code = iteration_log.generation[1].testbench_code)
    /\ [](pc = "done" /\ other.pc = "done" => InLog(run_log) /\ InLog(Stamped(OtherRecord)))

\* the parts of C16 taken one at a time
C16_OwnArtifactVerified ==
    pc = "compile_tb" /\ tb_file.exists
    => tb_file.code = iteration_log.generation[1].testbench_code

C16_BothRecordsKept ==
    pc = "done" /\ other.pc = "done" => InLog(run_log) /\ InLog(Stamped(OtherRecord))

\* the markers generate_targeted_error_prompt looks for
KindMarkers == {"PINMISSING", "WIDTHTRUNC", "WIDTHEXPAND", "Cannot find"}
ErrorMarkers == {"Error", "error"}

HasAny(text, markers) == \E m \in markers : Contains(text, m)

\* C21: a text with no kind marker and no error-like marker gets no
\* correction instruction at all, and the generic SYNTAX_ERROR block is
\* given only to a text with an error-like marker for which no kind's
\* block was produced
C21_NoMarkersNoInstruction ==
    [][LET text == fn_call.error_summary
       IN  /\ ~HasAny(text, KindMarkers) /\ ~HasAny(text, ErrorMarkers) => fn_result' = <<>>
           /\ (\E i \in 1..Len(fn_result') : fn_result'[i].template = "SYNTAX_ERROR")
                => HasAny(text, ErrorMarkers) /\ Len(fn_result') = 1]_vars

\* the part of C21 the code keeps: the SYNTAX_ERROR block stands alone and
\* only under an error-like marker; what a text without any marker gets is
\* the sentence of line 279
C21_GenericOnlyOnErrorMarker ==
    /\ HasBlock("SYNTAX_ERROR") => HasAny(fn_call.error_summary, ErrorMarkers) /\ Len(fn_result) = 1
    /\ fn_result # <<>> /\ ~HasAny(fn_call.error_summary, KindMarkers \cup ErrorMarkers)
         => fn_result = <<ReviewText>>

\* every way of leaving out keyword arguments of a template
KwargSamples ==
    {[port |-> <<"rst">>], [port |-> "data", expected_width |-> "8"],
     [module_name |-> "counter", port_connections |-> <<>>], [signal |-> "x"],
     [module |-> "<module>"], <<>>}

\* C22: a kind whose marker is present but whose template parameter is not
\* available still gets its own template, unfilled: PINMISSING without a
\* quoted pin, a width marker without a port name, and
\* get_fix_for_error_type called without one of the template's names
C22_UnfilledTemplateWhenParameterMissing ==
    /\ \A t \in DOMAIN ERROR_FIX_TEMPLATES : \A kw \in KwargSamples :
          ~(ERROR_FIX_TEMPLATES[t] \subseteq DOMAIN kw)
             => get_fix_for_error_type(t, kw) = Unfilled(t)
    /\ fn_result # <<>> /\ HasWidthMarker /\ NamedPort = ""
          => Blocks("WIDTHTRUNC") = <<Unfilled("WIDTHTRUNC")>>
    /\ fn_result # <<>> /\ Contains(fn_call.error_summary, "PINMISSING")
         /\ parse_pinmissing_error(fn_call.error_summary) = <<>>
          => Blocks("PINMISSING") = <<Unfilled("PINMISSING")>>

\* the part of C22 the code keeps
C22_WidthAndKwargsDegrade ==
    /\ \A t \in DOMAIN ERROR_FIX_TEMPLATES : \A kw \in KwargSamples :
          ~(ERROR_FIX_TEMPLATES[t] \subseteq DOMAIN kw)
             => get_fix_for_error_type(t, kw) = Unfilled(t)
    /\ fn_result # <<>> /\ HasWidthMarker /\ NamedPort = ""
          => Blocks("WIDTHTRUNC") = <<Unfilled("WIDTHTRUNC")>>
    /\ fn_result # <<>> /\ Contains(fn_call.error_summary, "PINMISSING")
         /\ parse_pinmissing_error(fn_call.error_summary) = <<>>
          => Blocks("PINMISSING") = <<>>

\* ======================================= sanitize_verilog_code called alone
\* length of the enumerated raw texts
MaxTokens == 4

\* tokens of a raw completion: the keyword module, "end" directly followed
\* by "module" for endmodule, an identifier, a newline, a plain and a
\* language-tagged fence, and a word of commentary
RawTokens == {"module", "end", "x", "NL", "fence", "fence_verilog", "Here"}

\* longer completions: fenced code with commentary around it
RawFencedModule ==
    {<<"fence_verilog", "NL", "module", "x", "end", "module", "NL", "fence">>,
     <<"fence_systemverilog", "NL", "module", "x", "end", "module", "NL", "fence", "NL">>,
     <<"Here", "fence", "NL", "module", "x", "end", "module", "NL", "fence", "Here">>}

RawLong ==
    RawFencedModule
    \cup {<<"module", "x", "end", "module", "module", "x", "end", "module", "Here">>}

RawTexts == UNION {[1..n -> RawTokens] : n \in 0..MaxTokens} \cup RawLong \cup RawSamples

InitSan ==
    /\ NoRun
    /\ memory = [kind |-> "absent", data |-> <<>>]
    /\ other = NoOtherRun
    /\ trace = <<>>
    /\ \E raw_code \in RawTexts :
          fn_call = [fn |-> "sanitize_verilog_code", raw_code |-> raw_code]
    /\ fn_result = <<>>

\* clean = sanitize_verilog_code(raw_code)
CallSanitize ==
    /\ fn_call.fn = "sanitize_verilog_code"
    /\ fn_result = <<>>
    /\ fn_result' = <<sanitize_verilog_code(fn_call.raw_code)>>
    /\ UNCHANGED RunVars
    /\ UNCHANGED <<memory, other, trace, fn_call>>

\* sanitize_verilog_code(clean): the function applied to its own result
CallSanitizeAgain ==
    /\ fn_call.fn = "sanitize_verilog_code"
    /\ Len(fn_result) = 1
    /\ fn_result[1].ok
    /\ fn_result' = Append(fn_result, sanitize_verilog_code(fn_result[1].code))
    /\ UNCHANGED RunVars
    /\ UNCHANGED <<memory, other, trace, fn_call>>

NextSan == CallSanitize \/ CallSanitizeAgain

SpecSan == InitSan /\ [][NextSan]_vars

\* positions of the keyword module that are not the tail of an endmodule
ModuleStarts(code) ==
    {i \in 1..Len(code) : code[i] = "module" /\ (i = 1 \/ code[i - 1] # "end")}
ModuleEnds(code) == {i \in 1..Len(code) : IsEndmoduleAt(code, i)}

SetMin(S) == CHOOSE x \in S : \A y \in S : x <= y
SetMax(S) == CHOOSE x \in S : \A y \in S : x >= y

Stripped == StripFences(fn_call.raw_code)

\* C23: a text that, after fence stripping, has no module-start keyword or
\* no module-end keyword is rejected, with the first 200 characters of the
\* raw text in the error
C23_RejectsWithoutStartOrEnd ==
    fn_result # <<>> /\ (ModuleStarts(Stripped) = {} \/ ModuleEnds(Stripped) = {})
    => /\ ~fn_result[1].ok
       /\ fn_result[1].preview = SubSeq(fn_call.raw_code, 1, Min(200, Len(fn_call.raw_code)))

\* what the code does: it rejects exactly the texts without an endmodule,
\* because find("module") also finds the module inside endmodule
C23_RejectsExactlyWithoutEndmodule ==
    fn_result # <<>>
    => /\ fn_result[1].ok <=> ModuleEnds(Stripped) # {}
       /\ ~fn_result[1].ok
            => fn_result[1].preview
                 = SubSeq(fn_call.raw_code, 1, Min(200, Len(fn_call.raw_code)))

\* module text that needs no cleaning, up to the newline at its end
IsClean(raw) ==
    /\ Len(raw) >= 3
    /\ raw[1] = "module"
    /\ \A i \in 1..Len(raw) : raw[i] \notin FenceTokens
    /\ \/ IsEndmoduleAt(raw, Len(raw) - 1)
       \/ raw[Len(raw)] = "NL" /\ IsEndmoduleAt(raw, Len(raw) - 2)

\* C24: sanitizing the result of a successful call gives the same result
\* again, and clean module text comes back unchanged but for the newline
\* at its end
C24_Idempotent ==
    /\ Len(fn_result) = 2 => fn_result[2] = fn_result[1]
    /\ fn_result # <<>> /\ IsClean(fn_call.raw_code)
         => /\ fn_result[1].ok
            /\ fn_result[1].code
                 = IF Last(fn_call.raw_code) = "NL" THEN fn_call.raw_code
                   ELSE Append(fn_call.raw_code, "NL")

\* idempotence where the text has a module-start keyword of its own
C24_IdempotentWithModuleStart ==
    Len(fn_result) = 2 /\ ModuleStarts(Stripped) # {} /\ SetMin(ModuleStarts(Stripped)) < SetMax(ModuleEnds(Stripped))
    /\ (\A i \in ModuleEnds(Stripped) : i > SetMin(ModuleStarts(Stripped)))
    => fn_result[2] = fn_result[1]

\* C25: a successful call returns the fence-stripped text from its first
\* module-start keyword through its last endmodule, then one newline; no
\* fence is left in it, and fenced  module x endmodule  gives exactly
\* module x endmodule  and a newline
C25_ExactSpan ==
    fn_result # <<>> /\ fn_result[1].ok
    => /\ ModuleStarts(Stripped) # {}
       /\ fn_result[1].code
            = SubSeq(Stripped, SetMin(ModuleStarts(Stripped)), SetMax(ModuleEnds(Stripped)) + 1)
              \o <<"NL">>
       /\ \A i \in 1..Len(fn_result[1].code) : fn_result[1].code[i] \notin FenceTokens
       /\ fn_call.raw_code \in RawFencedModule
            => fn_result[1].code = <<"module", "x", "end", "module", "NL">>

\* the span where no endmodule stands before the first module-start keyword
C25_ExactSpanWithModuleStart ==
    fn_result # <<>> /\ fn_result[1].ok /\ ModuleStarts(Stripped) # {}
    /\ (\A i \in ModuleEnds(Stripped) : i > SetMin(ModuleStarts(Stripped)))
    => /\ fn_result[1].code
            = SubSeq(Stripped, SetMin(ModuleStarts(Stripped)), SetMax(ModuleEnds(Stripped)) + 1)
              \o <<"NL">>
       /\ \A i \in 1..Len(fn_result[1].code) : fn_result[1].code[i] \notin FenceTokens
       /\ fn_call.raw_code \in RawFencedModule
            => fn_result[1].code = <<"module", "x", "end", "module", "NL">>

\* ================================================= utils/port_extractor.py
\* number of items of a hardware description text
MaxItems == 3

\* A hardware description is a sequence of items: a module header, a port
\* declaration (direction, storage class or "", bit range or "", name), or
\* an endmodule. What the regular expressions of extract_dut_ports find in
\* an item depends on these parts only.
Header(name) == [kind |-> "header", direction |-> "", storage |-> "", range |-> "", name |-> name]
Decl(direction, storage, range, name) ==
    [kind |-> "decl", direction |-> direction, storage |-> storage, range |-> range,
     name |-> name]
Endmodule == [kind |-> "endmodule", direction |-> "", storage |-> "", range |-> "", name |-> ""]

DeclSamples ==
    {Decl("input", "wire", "", "clk"),      Decl("input", "wire", "[7:0]", "data"),
     Decl("input", "reg", "", "en"),        Decl("input", "reg", "[3:0]", "addr"),
     Decl("input", "", "", "rst"),          Decl("input", "", "[1:0]", "sel"),
     Decl("output", "wire", "", "q"),       Decl("output", "wire", "[7:0]", "y"),
     Decl("output", "reg", "", "done"),     Decl("output", "reg", "[3:0]", "count"),
     Decl("output", "", "", "ok"),          Decl("output", "", "[15:0]", "z"),
     Decl("output", "wire", "", "clk"),     Decl("input", "wire", "[15:8]", "CLK"),
     Decl("input", "reg", "", "Reset")}

DutItems == DeclSamples \cup {Header("counter"), Endmodule}

DutTexts == UNION {[1..n -> DutItems] : n \in 0..MaxItems}

\* the first word of an item
FirstWord(item) ==
    CASE item.kind = "header"    -> "module"
      [] item.kind = "decl"      -> item.direction
      [] item.kind = "endmodule" -> "endmodule"

\* re.search(r'module\s+(\w+)', content): the word after the first "module"
\* that is followed by white space and a word; the module inside an
\* endmodule counts when another item follows it
ModuleMatches(content) ==
    {i \in 1..Len(content) :
        \/ content[i].kind = "header"
        \/ content[i].kind = "endmodule" /\ i < Len(content)}

ModuleName(content) ==
    IF ModuleMatches(content) = {} THEN "my_dut"
    ELSE LET i == CHOOSE k \in ModuleMatches(content) : \A j \in ModuleMatches(content) : k <= j
         IN  IF content[i].kind = "header" THEN content[i].name
             ELSE FirstWord(content[i + 1])

\* lines 32-37 and 51-56: the four patterns of a direction, in list order
Patterns(direction) ==
    <<[direction |-> direction, storage |-> "wire", ranged |-> TRUE],
      [direction |-> direction, storage |-> "wire", ranged |-> FALSE],
      [direction |-> direction, storage |-> "reg", ranged |-> TRUE],
      [direction |-> direction, storage |-> "reg", ranged |-> FALSE]>>

\* mutant: the single-identifier pattern also matches a ranged declaration
Matches_Loose(pattern, item) ==
    /\ item.kind = "decl"
    /\ item.direction = pattern.direction
    /\ item.storage = pattern.storage
    /\ pattern.ranged => item.range # ""

\* a pattern matches a declaration of its direction and storage class; the
\* (\w+) right after the storage class cannot match "[", so the pattern
\* without a range matches only declarations without one
Matches(pattern, item) ==
    /\ item.kind = "decl"
    /\ item.direction = pattern.direction
    /\ item.storage = pattern.storage
    /\ pattern.ranged <=> item.range # ""

\* lines 41-47: the tuple appended for a match
Entry(pattern, item) ==
    IF pattern.ranged THEN <<item.name, item.range>> ELSE <<item.name, "">>

\* for pattern in patterns: for match in re.finditer(pattern, content)
RECURSIVE Collect(_, _)
Collect(patterns, content) ==
    IF patterns = <<>> THEN <<>>
    ELSE LET pattern == Head(patterns)
             found == SelectSeq(content, LAMBDA item : Matches(pattern, item))
         IN  [i \in 1..Len(found) |-> Entry(pattern, found[i])]
             \o Collect(Tail(patterns), content)

extract_dut_ports(file) ==
    IF ~file.exists
    THEN [module_name |-> "my_dut", inputs |-> <<>>, outputs |-> <<>>]
    ELSE [module_name |-> ModuleName(file.content),
          inputs |-> Collect(Patterns("input"), file.content),
          outputs |-> Collect(Patterns("output"), file.content)]

\* mutant: a comma after every entry
generate_port_connections_TrailingComma(ports) ==
    [i \in 1..Len(AllPorts(ports)) |->
        [pin |-> AllPorts(ports)[i][1], signal |-> AllPorts(ports)[i][1], comma |-> ","]]

\* generate_port_connections: the lines joined by the newline
generate_port_connections(ports) ==
    LET all_ports == AllPorts(ports)
    IN  [i \in 1..Len(all_ports) |->
            [pin |-> all_ports[i][1], signal |-> all_ports[i][1],
             comma |-> IF i - 1 < Len(all_ports) - 1 THEN "," ELSE ""]]

InitPorts ==
    /\ NoRun
    /\ memory = [kind |-> "absent", data |-> <<>>]
    /\ other = NoOtherRun
    /\ trace = <<>>
    /\ \/ \E content \in DutTexts :
             fn_call = [fn |-> "extract_dut_ports",
                        dut_file |-> [exists |-> TRUE, content |-> content]]
       \/ fn_call = [fn |-> "extract_dut_ports",
                     dut_file |-> [exists |-> FALSE, content |-> <<>>]]
    /\ fn_result = <<>>

\* ports = extract_dut_ports(dut_file)
CallExtract ==
    /\ fn_call.fn = "extract_dut_ports"
    /\ fn_result = <<>>
    /\ fn_result' = <<extract_dut_ports(fn_call.dut_file)>>
    /\ UNCHANGED RunVars
    /\ UNCHANGED <<memory, other, trace, fn_call>>

\* generate_port_connections(ports)
CallConnections ==
    /\ fn_call.fn = "extract_dut_ports"
    /\ Len(fn_result) = 1
    /\ fn_result' = Append(fn_result, generate_port_connections(fn_result[1]))
    /\ UNCHANGED RunVars
    /\ UNCHANGED <<memory, other, trace, fn_call>>

NextPorts == CallExtract \/ CallConnections

SpecPorts == InitPorts /\ [][NextPorts]_vars

Extracted == fn_result[1]
Content == fn_call.dut_file.content

\* C26: the connection list has one entry .name(name) per port, the inputs
\* first and then the outputs, in the descriptor's order, with a comma after
\* every entry but the last; it is empty for a descriptor without ports
C26_ConnectionsComplete ==
    Len(fn_result) = 2
    => LET ins == Extracted.inputs
           outs == Extracted.outputs
           conns == fn_result[2]
       IN  /\ Len(conns) = Len(ins) + Len(outs)
           /\ \A i \in 1..Len(ins) : conns[i].pin = ins[i][1] /\ conns[i].signal = ins[i][1]
           /\ \A i \in 1..Len(outs) :
                 /\ conns[Len(ins) + i].pin = outs[i][1]
                 /\ conns[Len(ins) + i].signal = outs[i][1]
           /\ \A i \in 1..Len(conns) : conns[i].comma = IF i < Len(conns) THEN "," ELSE ""

\* two inputs and an output: commas after the first two entries only
C26_Witness ==
    /\ Len(fn_result) = 2
    /\ Extracted.inputs = <<<<"clk", "">>, <<"en", "">>>>
    /\ Extracted.outputs = <<<<"y", "[7:0]">>>>
    /\ fn_result[2] = <<[pin |-> "clk", signal |-> "clk", comma |-> ","],
                         [pin |-> "en", signal |-> "en", comma |-> ","],
                         [pin |-> "y", signal |-> "y", comma |-> ""]>>

\* where in the text a port of a direction is declared first, 0 if nowhere
FirstDeclared(direction, name) ==
    LET at == {i \in 1..Len(Content) :
                 /\ Content[i].kind = "decl"
                 /\ Content[i].direction = direction
                 /\ Content[i].name = name}
    IN  IF at = {} THEN 0 ELSE SetMin(at)

InDeclarationOrder(direction, entries) ==
    \A i, j \in 1..Len(entries) :
        i < j => FirstDeclared(direction, entries[i][1]) <= FirstDeclared(direction, entries[j][1])

\* C27: the inputs are listed in the order in which they are first
\* declared in the text, and so are the outputs
C27_DeclarationOrder ==
    fn_result # <<>> /\ fn_call.dut_file.exists
    => /\ InDeclarationOrder("input", Extracted.inputs)
       /\ InDeclarationOrder("output", Extracted.outputs)

\* what the code keeps: the order among the declarations one pattern finds
C27_OrderWithinOnePattern ==
    fn_result # <<>> /\ fn_call.dut_file.exists
    => \A k \in 1..4 :
         LET found == SelectSeq(Content, LAMBDA item : Matches(Patterns("input")[k], item))
         IN  \A i, j \in 1..Len(found) : i < j =>
               \E a, b \in 1..Len(Extracted.inputs) :
                  /\ a < b
                  /\ Extracted.inputs[a][1] = found[i].name
                  /\ Extracted.inputs[b][1] = found[j].name

ListOf(direction) == IF direction = "input" THEN Extracted.inputs ELSE Extracted.outputs

HasEntry(direction, name, width) ==
    \E i \in 1..Len(ListOf(direction)) : ListOf(direction)[i] = <<name, width>>

\* C28: every declaration, with storage class wire, reg or none, ranged or
\* not, gives an entry with its name and range in the list of its direction
C28_EveryDeclarationForm ==
    fn_result # <<>> /\ fn_call.dut_file.exists
    => \A i \in 1..Len(Content) :
         Content[i].kind = "decl"
            => HasEntry(Content[i].direction, Content[i].name, Content[i].range)

\* what the code keeps: declarations that name wire or reg
C28_WireAndRegForms ==
    fn_result # <<>> /\ fn_call.dut_file.exists
    => \A i \in 1..Len(Content) :
         Content[i].kind = "decl"
            => (HasEntry(Content[i].direction, Content[i].name, Content[i].range)
                  <=> Content[i].storage \in {"wire", "reg"})

DefaultDescriptor == [module_name |-> "my_dut", inputs |-> <<>>, outputs |-> <<>>]

\* C29: without a module header in the text, or without the file, the
\* result is the default name with both lists empty
C29_DefaultWithoutHeader ==
    fn_result # <<>>
    /\ (~fn_call.dut_file.exists \/ \A i \in 1..Len(Content) : Content[i].kind # "header")
    => Extracted = DefaultDescriptor

\* what the code keeps: the absent file, and the default name when nothing
\* in the text matches the header pattern
C29_DefaultForAbsentFile ==
    fn_result # <<>>
    => /\ ~fn_call.dut_file.exists => Extracted = DefaultDescriptor
       /\ fn_call.dut_file.exists /\ ModuleMatches(Content) = {}
            => Extracted.module_name = "my_dut"

Occurrences(direction, name) ==
    Cardinality({i \in 1..Len(Content) :
                   /\ Content[i].kind = "decl"
                   /\ Content[i].storage \in {"wire", "reg"}
                   /\ Content[i].direction = direction
                   /\ Content[i].name = name})

EntriesOf(direction, name) ==
    Cardinality({i \in 1..Len(ListOf(direction)) : ListOf(direction)[i][1] = name})

\* C30: a declaration with wire or reg gives exactly one entry, in the list
\* of its direction, with its name and its range: as many entries of a name
\* as declarations of it, none with the range lost
C30_OneEntryPerDeclaration ==
    fn_result # <<>> /\ fn_call.dut_file.exists
    => \A direction \in {"input", "output"} :
         /\ \A d \in DeclSamples :
               d.direction = direction
                  => EntriesOf(direction, d.name) = Occurrences(direction, d.name)
         /\ \A i \in 1..Len(ListOf(direction)) :
               \E d \in DeclSamples :
                  /\ d.direction = direction
                  /\ ListOf(direction)[i] = <<d.name, d.range>>

\* a ranged wire input and a ranged reg output, one entry each
C30_Witness ==
    /\ fn_result # <<>>
    /\ Content = <<Header("counter"), Decl("input", "wire", "[7:0]", "data"),
                   Decl("output", "reg", "[3:0]", "count")>>
    /\ Extracted.inputs = <<<<"data", "[7:0]">>>>
    /\ Extracted.outputs = <<<<"count", "[3:0]">>>>

NamesOf(entries) == {entries[i][1] : i \in 1..Len(entries)}

NoDuplicates(entries) ==
    \A i, j \in 1..Len(entries) : entries[i][1] = entries[j][1] => i = j

\* C31: in every descriptor extract_dut_ports returns, a name occurs at most
\* once among the inputs, at most once among the outputs, and never in both
\* lists, whatever the text declares
C31_PortNamesUnique ==
    fn_result # <<>>
    => /\ NoDuplicates(Extracted.inputs)
       /\ NoDuplicates(Extracted.outputs)
       /\ NamesOf(Extracted.inputs) \cap NamesOf(Extracted.outputs) = {}

\* what the code keeps: unique names when the text declares every name once
C31_UniqueWhenDeclaredOnce ==
    fn_result # <<>> /\ fn_call.dut_file.exists
    /\ (\A i, j \in 1..Len(Content) :
           Content[i].kind = "decl" /\ Content[j].kind = "decl"
           /\ Content[i].name = Content[j].name => i = j)
    => /\ NoDuplicates(Extracted.inputs)
       /\ NoDuplicates(Extracted.outputs)
       /\ NamesOf(Extracted.inputs) \cap NamesOf(Extracted.outputs) = {}

\* ---------------------------------------------------------------------
\* utils/port_extractor.py: detect_port_features, applied to descriptors
\* ---------------------------------------------------------------------

\* name.lower() on the names in use
Lower(name) ==
    CASE name = "CLK"   -> "clk"
      [] name = "Clock" -> "clock"
      [] name = "Reset" -> "reset"
      [] name = "RST"   -> "rst"
      [] OTHER          -> name

\* int(re.search(r'\[(\d+):', width).group(1)): the number before the colon
RangeHigh(width) ==
    CASE width = "[1:0]"  -> 1
      [] width = "[3:0]"  -> 3
      [] width = "[7:0]"  -> 7
      [] width = "[15:0]" -> 15
      [] width = "[15:8]" -> 15

\* the number after the colon
RangeLow(width) == IF width = "[15:8]" THEN 8 ELSE 0

\* mutant: a clock or reset name among the outputs sets the flag as well
detect_port_features_AnyPort(ports) ==
    LET all == AllPorts(ports)
        ranged == {i \in 1..Len(all) : all[i][2] # ""}
    IN  [has_clk |-> \E i \in 1..Len(all) : Lower(all[i][1]) \in {"clk", "clock"},
         has_rst |-> \E i \in 1..Len(all) : Lower(all[i][1]) \in {"rst", "reset"},
         has_multibit |-> ranged # {},
         max_width |-> SetMax({0} \cup {RangeHigh(all[i][2]) + 1 : i \in ranged}),
         num_inputs |-> Len(ports.inputs),
         num_outputs |-> Len(ports.outputs)]

detect_port_features(ports) ==
    LET all == AllPorts(ports)
        ranged == {i \in 1..Len(all) : all[i][2] # ""}
    IN  [has_clk |-> \E i \in 1..Len(ports.inputs) :
                        Lower(ports.inputs[i][1]) \in {"clk", "clock"},
         has_rst |-> \E i \in 1..Len(ports.inputs) :
                        Lower(ports.inputs[i][1]) \in {"rst", "reset"},
         has_multibit |-> ranged # {},
         max_width |-> SetMax({0} \cup {RangeHigh(all[i][2]) + 1 : i \in ranged}),
         num_inputs |-> Len(ports.inputs),
         num_outputs |-> Len(ports.outputs)]

\* ports clk, rst, data[7:0] in and out[7:0] out
ExamplePorts ==
    [module_name |-> "counter",
     inputs |-> <<<<"clk", "">>, <<"rst", "">>, <<"data", "[7:0]">>>>,
     outputs |-> <<<<"out", "[7:0]">>>>]

\* other spellings, a reset among the outputs, a range that does not end at 0
MixedCasePorts ==
    [module_name |-> "bus",
     inputs |-> <<<<"Clock", "">>, <<"RST", "">>>>,
     outputs |-> <<<<"reset", "">>, <<"bus", "[15:8]">>>>]

\* the descriptors extract_dut_ports gives for the texts, and the two above
FeatureSamples ==
    {extract_dut_ports([exists |-> TRUE, content |-> content]) : content \in DutTexts}
        \cup {ExamplePorts, MixedCasePorts}

InitFeatures ==
    /\ NoRun
    /\ memory = [kind |-> "absent", data |-> <<>>]
    /\ other = NoOtherRun
    /\ trace = <<>>
    /\ \E ports \in FeatureSamples :
          fn_call = [fn |-> "detect_port_features", ports |-> ports]
    /\ fn_result = <<>>

\* features = detect_port_features(ports)
CallFeatures ==
    /\ fn_call.fn = "detect_port_features"
    /\ fn_result = <<>>
    /\ fn_result' = <<detect_port_features(fn_call.ports)>>
    /\ UNCHANGED RunVars
    /\ UNCHANGED <<memory, other, trace, fn_call>>

NextFeatures == CallFeatures

SpecFeatures == InitFeatures /\ [][NextFeatures]_vars

\* the spellings of the clock and reset names among the port names in use
ClockSpellings == {"clk", "clock", "CLK", "Clock"}
ResetSpellings == {"rst", "reset", "RST", "Reset"}

\* C32: has_clk holds exactly when an input is named clk or clock in any
\* case, has_rst exactly when an input is named rst or reset in any case
\* (an output never sets either), has_multibit exactly when an input or an
\* output has a bit range, num_inputs and num_outputs are the list lengths;
\* clk, rst, data[7:0] in and out[7:0] out give true, true, true and 8
C32_FeatureFlags ==
    fn_result # <<>>
    => LET ports == fn_call.ports
           features == fn_result[1]
       IN  /\ features.has_clk <=> NamesOf(ports.inputs) \cap ClockSpellings # {}
           /\ features.has_rst <=> NamesOf(ports.inputs) \cap ResetSpellings # {}
           /\ features.has_multibit <=>
                 \/ \E i \in 1..Len(ports.inputs) : ports.inputs[i][2] # ""
                 \/ \E i \in 1..Len(ports.outputs) : ports.outputs[i][2] # ""
           /\ features.num_inputs = Len(ports.inputs)
           /\ features.num_outputs = Len(ports.outputs)
           /\ ports = ExamplePorts
                 => /\ features.has_clk /\ features.has_rst /\ features.has_multibit
                    /\ features.max_width = 8

\* the example's descriptor classified, and a clock among the outputs only
C32_Witness ==
    /\ fn_result # <<>>
    /\ fn_call.ports = ExamplePorts
    /\ fn_result[1] = [has_clk |-> TRUE, has_rst |-> TRUE, has_multibit |-> TRUE,
                       max_width |-> 8, num_inputs |-> 3, num_outputs |-> 1]

C32_WitnessOutputClock ==
    /\ fn_result # <<>>
    /\ "clk" \in NamesOf(fn_call.ports.outputs)
    /\ ~fn_result[1].has_clk

BitCount(width) == RangeHigh(width) - RangeLow(width) + 1

\* C33: max_width is the largest bit count high - low + 1 over the ranged
\* ports, also when low is not 0, and 0 when no port has a range
C33_MaxWidthIsBitCount ==
    fn_result # <<>>
    => LET all == AllPorts(fn_call.ports)
           ranged == {i \in 1..Len(all) : all[i][2] # ""}
       IN  fn_result[1].max_width =
              IF ranged = {} THEN 0 ELSE SetMax({BitCount(all[i][2]) : i \in ranged})

\* what the code keeps: the largest high bound plus one, which is the bit
\* count when every range ends at 0
C33_MaxWidthFromHighBound ==
    fn_result # <<>>
    => LET all == AllPorts(fn_call.ports)
           ranged == {i \in 1..Len(all) : all[i][2] # ""}
       IN  /\ fn_result[1].max_width =
                 IF ranged = {} THEN 0 ELSE SetMax({RangeHigh(all[i][2]) + 1 : i \in ranged})
           /\ (\A i \in ranged : RangeLow(all[i][2]) = 0)
                 => fn_result[1].max_width =
                       IF ranged = {} THEN 0 ELSE SetMax({BitCount(all[i][2]) : i \in ranged})

\* ---------------------------------------------------------------------
\* utils/code_generator.py: generate_signal_declarations
\* ---------------------------------------------------------------------

\* one declaration line of the harness: storage class, range if any, name
SignalDecl(storage, entry) ==
    IF entry[2] # "" THEN <<storage, entry[2], entry[1]>> ELSE <<storage, entry[1]>>

\* generate_signal_declarations: the lines of the block, a comment line
\* before the inputs and before the outputs when there are any
generate_signal_declarations(ports) ==
    (IF ports.inputs # <<>> THEN <<<<"// DUT Inputs (use 'reg')">>>> ELSE <<>>)
    \o [i \in 1..Len(ports.inputs) |-> SignalDecl("reg", ports.inputs[i])]
    \o (IF ports.outputs # <<>> THEN <<<<"// DUT Outputs (use 'wire')">>>> ELSE <<>>)
    \o [i \in 1..Len(ports.outputs) |-> SignalDecl("wire", ports.outputs[i])]

\* the lines generate_signal_declarations emits for a port name
DeclaredFor(port_name, ports) ==
    {generate_signal_declarations(ports)[i] :
        i \in {k \in 1..Len(generate_signal_declarations(ports)) :
                 LET line == generate_signal_declarations(ports)[k]
                 IN  Len(line) >= 2 /\ line[Len(line)] = port_name}}

\* C36: the declaration line of a width block for a port of the descriptor
\* is the line generate_signal_declarations emits for that port: reg for an
\* input, wire for an output, with the descriptor's range
C36_DeclarationAsInHarness ==
    fn_call.fn = "generate_targeted_error_prompt" /\ fn_result # <<>> /\ HasWidthMarker
    /\ NamedPort \in NamesOf(AllPorts(fn_call.ports))
    => /\ HasBlock("WIDTHTRUNC")
       /\ Blocks("WIDTHTRUNC")[1].kwargs.correct_declaration
             \in DeclaredFor(NamedPort, fn_call.ports)

\* what the code keeps: the line of the harness when the port is an input
C36_DeclarationOfInputs ==
    fn_call.fn = "generate_targeted_error_prompt" /\ fn_result # <<>> /\ HasWidthMarker
    /\ NamedPort \in NamesOf(fn_call.ports.inputs)
    => /\ HasBlock("WIDTHTRUNC")
       /\ Blocks("WIDTHTRUNC")[1].kwargs.correct_declaration
             \in DeclaredFor(NamedPort, fn_call.ports)

\* ---------------------------------------------------------------------
\* The retry path of generate_testbench called alone (lines 152-165):
\* extract_error_summary on the failing result, then
\* generate_targeted_error_prompt on the summary
\* ---------------------------------------------------------------------
MaxFiller == 10

\* lines of the tool with everything the two functions search for
LineUnused ==
    Line("%Warning-UNUSED: tb/generated_tb.sv:2: Signal is not used: 't'",
         {"Warning"}, "", "", <<>>)
LinePinClk ==
    Line("%Warning-PINMISSING: tb/generated_tb.sv:5: Cell has missing pin: 'clk'",
         {"Warning", "PINMISSING"}, "clk", "", <<>>)
LineWidthData ==
    Line("%Warning-WIDTHTRUNC: tb/generated_tb.sv:7: port 'data' expects 8 bits, got 4 bits",
         {"Warning", "WIDTH", "WIDTHTRUNC"}, "", "data", <<"8", "4">>)
LineLintHint ==
    Line("... Use /* verilator lint_off PINMISSING */ and lint_on around source to disable this message.",
         {"PINMISSING", "verilator lint"}, "", "", <<>>)
LineSourceContext == Line("    5 |   counter dut (.rst(rst));", {}, "", "", <<>>)

SummaryLines ==
    {LinePin, LinePinClk, LineWidthData, LineModuleNotFound, LineLintHint, LineSourceContext}

\* k unrelated warnings
Filler(k) == [i \in 1..k |-> LineUnused]

\* the stderr of the failing check: unrelated warnings, then one or two of
\* the lines above
StderrSamples ==
    {Filler(k) \o tail : k \in 0..MaxFiller,
                         tail \in UNION {[1..n -> SummaryLines] : n \in 1..2}}

CounterPorts ==
    [module_name |-> "counter",
     inputs |-> <<<<"clk", "">>, <<"rst", "">>, <<"data", "[7:0]">>>>,
     outputs |-> <<<<"q", "[3:0]">>>>]

InitSummary ==
    /\ NoRun
    /\ memory = [kind |-> "absent", data |-> <<>>]
    /\ other = NoOtherRun
    /\ trace = <<>>
    /\ \E stderr \in StderrSamples :
          fn_call = [fn |-> "extract_error_summary",
                     results |-> <<Result("compile_tb", "verilator", 1, "", stderr,
                                          "compile_tb")>>,
                     failing_step |-> "compile_tb",
                     ports |-> CounterPorts]
    /\ fn_result = <<>>

\* error_summary = extract_error_summary(previous_error["results"],
\*                                       previous_error["failing_step"])
CallSummary ==
    /\ fn_call.fn = "extract_error_summary"
    /\ fn_result = <<>>
    /\ fn_result' = <<extract_error_summary(fn_call.results, fn_call.failing_step)>>
    /\ UNCHANGED RunVars
    /\ UNCHANGED <<memory, other, trace, fn_call>>

\* targeted_fixes = generate_targeted_error_prompt(error_summary, ports)
CallFixes ==
    /\ fn_call.fn = "extract_error_summary"
    /\ Len(fn_result) = 1
    /\ fn_result' = Append(fn_result,
                           generate_targeted_error_prompt(fn_result[1], fn_call.ports))
    /\ UNCHANGED RunVars
    /\ UNCHANGED <<memory, other, trace, fn_call>>

NextSummary == CallSummary \/ CallFixes

SpecSummary == InitSummary /\ [][NextSummary]_vars

FailingStderr == fn_call.results[1].stderr
Feedback == fn_result[2]
FeedbackHas(template) == \E i \in 1..Len(Feedback) : Feedback[i].template = template

\* the markers by which the synthesizer recognizes a kind
RecognizedMarkers == {"PINMISSING", "WIDTHTRUNC", "WIDTHEXPAND", "Cannot find"}

InSummary(line) == \E i \in 1..Len(fn_result[1]) : fn_result[1][i] = line

\* C35: every line of the failing check's stderr that carries a recognized
\* marker is in the summary, every kind whose marker is in the stderr has
\* its block in the feedback, and every missing pin named in the stderr is
\* in the PINMISSING block
C35_SummaryKeepsMarkers ==
    Len(fn_result) = 2
    => /\ \A i \in 1..Len(FailingStderr) :
             Markers(FailingStderr[i]) \cap RecognizedMarkers # {}
                => InSummary(FailingStderr[i])
       /\ Contains(FailingStderr, "PINMISSING") => FeedbackHas("PINMISSING")
       /\ (Contains(FailingStderr, "WIDTHTRUNC") \/ Contains(FailingStderr, "WIDTHEXPAND"))
             => FeedbackHas("WIDTHTRUNC")
       /\ Contains(FailingStderr, "Cannot find") /\ Contains(FailingStderr, "module")
             => FeedbackHas("MODULE_NOT_FOUND")
       /\ \A i \in 1..Len(FailingStderr) :
             FailingStderr[i].pin # ""
                => \E k \in 1..Len(Feedback) :
                      /\ Feedback[k].template = "PINMISSING" /\ Feedback[k].filled
                      /\ \E j \in 1..Len(Feedback[k].kwargs.port) :
                            Feedback[k].kwargs.port[j] = FailingStderr[i].pin

\* what the code keeps: the same, for a stderr with at most ten lines that
\* name a keyword and no marker in a lint hint
C35_ShortStderrKept ==
    Len(fn_result) = 2
    /\ Len(ErrorLines(FailingStderr)) <= 10
    /\ (\A i \in 1..Len(FailingStderr) : FailingStderr[i] # LineLintHint)
    => /\ \A i \in 1..Len(FailingStderr) :
             Markers(FailingStderr[i]) \cap RecognizedMarkers # {}
                => InSummary(FailingStderr[i])
       /\ Contains(FailingStderr, "PINMISSING") => FeedbackHas("PINMISSING")
       /\ (Contains(FailingStderr, "WIDTHTRUNC") \/ Contains(FailingStderr, "WIDTHEXPAND"))
             => FeedbackHas("WIDTHTRUNC")
       /\ Contains(FailingStderr, "Cannot find") /\ Contains(FailingStderr, "module")
             => FeedbackHas("MODULE_NOT_FOUND")
       /\ \A i \in 1..Len(FailingStderr) :
             FailingStderr[i].pin # ""
                => \E k \in 1..Len(Feedback) :
                      /\ Feedback[k].template = "PINMISSING" /\ Feedback[k].filled
                      /\ \E j \in 1..Len(Feedback[k].kwargs.port) :
                            Feedback[k].kwargs.port[j] = FailingStderr[i].pin

\* ---------------------------------------------------------------------
\* Further properties of the refinement loop and of run_flow
\* ---------------------------------------------------------------------

\* the feedback in the prompt of the k-th iteration record
FeedbackOf(k) == Records[k].generation[1].prompt.feedback

\* C34: the failing step, error summary and targeted fixes in the prompt of
\* an iteration are computed from the run_flow results logged by the
\* iteration right before it, and that summary is the one the earlier
\* iteration logged as error_for_next_iteration
C34_FeedbackFromPreviousIteration ==
    \A k \in 2..Len(Records) :
        Records[k].generation # <<>>
        => LET sim == Records[k - 1].simulation[1]
               summary == extract_error_summary(sim.verilator_results, sim.failing_step)
           IN  /\ Len(FeedbackOf(k)) = 1
               /\ FeedbackOf(k)[1].failing_step = sim.failing_step
               /\ FeedbackOf(k)[1].error_summary = summary
               /\ FeedbackOf(k)[1].targeted_fixes
                     = generate_targeted_error_prompt(summary, DutPorts(dut_file))
               /\ Records[k - 1].error_for_next_iteration = <<summary>>

\* a missing pin in the first iteration and a syntax error in the second:
\* the third prompt carries the syntax error only
C34_Witness ==
    /\ Len(Records) = 3
    /\ Records[3].generation # <<>>
    /\ Records[1].error_for_next_iteration = <<<<LinePin, LineExit>>>>
    /\ Records[2].error_for_next_iteration = <<<<LineSyntax>>>>
    /\ FeedbackOf(3)[1].error_summary = <<LineSyntax>>
    /\ FeedbackOf(3)[1].targeted_fixes = <<Unfilled("SYNTAX_ERROR")>>
    /\ FeedbackOf(2)[1].targeted_fixes[1].template = "PINMISSING"

AllPassed(res) == \A i \in 1..Len(res) : res[i].returncode = 0

\* C37: in the tuple run_flow returns, success holds exactly when
\* failing_step is 'ok' and exactly when every recorded result has exit
\* status 0; on failure exactly one recorded result has a non-zero status,
\* it is the last one, and failing_step is its name; the success flag
\* analyze_with_llm computes from the results is the driver's
C37_FlowTuple ==
    pc = "record"
    => /\ success <=> failing_step = "ok"
       /\ success <=> AllPassed(results)
       /\ ~success
             => /\ results # <<>>
                /\ Last(results).returncode # 0
                /\ Last(results).step = failing_step
                /\ AllPassed(SubSeq(results, 1, Len(results) - 1))
       /\ analyze_with_llm(results).success = success

\* compile_tb fails after two passing checks
C37_Witness ==
    /\ pc = "record"
    /\ ~success
    /\ failing_step = "compile_tb"
    /\ Len(results) = 3
    /\ results[3].returncode = 2
    /\ ~analyze_with_llm(results).success

\* ---------------------------------------------------------------------
\* rtl_runner.py: run_flow as a function of what each check returns
\* ---------------------------------------------------------------------

\* the tuple run_flow returns
FlowTuple(s, step, res) == [success |-> s, failing_step |-> step, results |-> res]

\* lines 165-205; check[step] is the dict the check of that name returns
run_flow(m, check) ==
    LET dut == <<check["compile_dut"]>>
        elab == dut \o <<check["elaborate_dut"]>>
        afterDut == IF AfterCompileDut(m) = "compile_tb" THEN dut ELSE elab
        tb == afterDut \o <<check["compile_tb"]>>
        sim == tb \o <<StubResult>>
    IN  IF check["compile_dut"].returncode # 0 THEN FlowTuple(FALSE, "compile_dut", dut)
        ELSE IF AfterCompileDut(m) = "elaborate_dut" /\ check["elaborate_dut"].returncode # 0
        THEN FlowTuple(FALSE, "elaborate_dut", elab)
        ELSE IF check["compile_tb"].returncode # 0 THEN FlowTuple(FALSE, "compile_tb", tb)
        ELSE IF EndsAtCompileTb(m) THEN FlowTuple(TRUE, "ok", tb)
        ELSE IF StubResult.returncode # 0 THEN FlowTuple(FALSE, "run_simulation", sim)
        ELSE FlowTuple(TRUE, "ok", sim)

\* what a check can return: a result of the external tool, or the report of
\* a missing file
CheckResults(step) ==
    {RunCmdResult("verilator", step, o) : o \in ToolOutcomes}
        \cup {MissingFile(step, IF step = "compile_tb" THEN LineTbNotFound
                                ELSE LineDutNotFound)}

CheckSamples ==
    {check \in [ToolSteps -> UNION {CheckResults(step) : step \in ToolSteps}] :
        \A step \in ToolSteps : check[step] \in CheckResults(step)}

InitFlow ==
    /\ NoRun
    /\ memory = [kind |-> "absent", data |-> <<>>]
    /\ other = NoOtherRun
    /\ trace = <<>>
    /\ \E check \in CheckSamples : fn_call = [fn |-> "run_flow", check |-> check]
    /\ fn_result = [full_sim |-> <<>>, compile_elaborate |-> <<>>]

\* run_flow(m) for one of the two modes, on the same outcomes of the checks
CallFlow(m) ==
    /\ fn_call.fn = "run_flow"
    /\ fn_result[m] = <<>>
    /\ fn_result' = [fn_result EXCEPT ![m] = <<run_flow(m, fn_call.check)>>]
    /\ UNCHANGED RunVars
    /\ UNCHANGED <<memory, other, trace, fn_call>>

NextFlow == CallFlow("full_sim") \/ CallFlow("compile_elaborate")

SpecFlow == InitFlow /\ [][NextFlow]_vars

\* C38: run_simulation never fails and runs no command, so on the same
\* outcomes of the checks the full mode returns the success flag and the
\* failing step of the compile_elaborate mode, and the same results but for
\* the passing run_simulation result added on success
C38_FullSimLikeCompileElaborate ==
    fn_result.full_sim # <<>> /\ fn_result.compile_elaborate # <<>>
    => LET full == fn_result.full_sim[1]
           elab == fn_result.compile_elaborate[1]
       IN  /\ full.success = elab.success
           /\ full.failing_step = elab.failing_step
           /\ full.failing_step # "run_simulation"
           /\ full.results = IF elab.success
                             THEN Append(elab.results, StubResult)
                             ELSE elab.results
           /\ StubResult.returncode = 0 /\ StubResult.cmd = "(stub) no command run"

\* every check passes: the full mode has the one result more
C38_Witness ==
    /\ fn_result.full_sim # <<>> /\ fn_result.compile_elaborate # <<>>
    /\ fn_result.compile_elaborate[1].success
    /\ Len(fn_result.compile_elaborate[1].results) = 3
    /\ Len(fn_result.full_sim[1].results) = 4
    /\ fn_result.full_sim[1].results[4].step = "run_simulation"

\* a failing compile_tb: the two modes return the same tuple
C38_WitnessFailure ==
    /\ fn_result.full_sim # <<>>
    /\ fn_result.full_sim = fn_result.compile_elaborate
    /\ fn_result.full_sim[1].failing_step = "compile_tb"

\* C39: every run ends by returning the tuple (success, failing_step,
\* results, analysis, iterations_used), never by an error of the function's
\* own control flow; with max_iterations = 0 it generates nothing, saves a
\* max_iterations_reached record and returns iterations_used = 0
C39_AlwaysReturnsTuple ==
    Terminated
    => /\ pc # "raised"
       /\ Len(ret) = 1
       /\ max_iterations = 0
             => /\ CountEvents("generate") = 0
                /\ run_log.final_status = "max_iterations_reached"
                /\ run_log.saved_at
                /\ Len(ret) = 1 /\ ret[1].iterations_used = 0

\* what the code keeps: a tuple for every budget of at least one iteration;
\* with a budget of 0 nothing is generated and the record is saved, and then
\* the return statement raises
C39_ReturnsWithPositiveBudget ==
    Terminated
    => /\ max_iterations >= 1
             => /\ pc = "done" /\ Len(ret) = 1
                /\ DOMAIN ret[1] = {"success", "failing_step", "results", "analysis",
                                    "iterations_used"}
       /\ max_iterations = 0
             => /\ CountEvents("generate") = 0
                /\ run_log.final_status = "max_iterations_reached"
                /\ run_log.saved_at
                /\ pc = "raised" /\ ret = <<>>

GenerationFailedStep == pc = "generate" /\ pc' = "done"

C40_WitnessOwnHarness ==
    /\ pc = "compile_tb"
    /\ Len(Records) = 1
    /\ tb_file.exists
    /\ tb_file.code = sanitize_verilog_code(RawPlain).code
    /\ tb_file.code # Records[1].generation[1].testbench_code
====
